---- MODULE Spec2Model ----
(***************************************************************************)
(* State-machine model of flask_vm_api: the HTTP handlers of api.py        *)
(* (create, lst, xml, resources), the connection wrapper LVConn and the    *)
(* DatasetManager, run against the remote hosts (each with its ZFS        *)
(* datasets, loop devices, fixed loop mount point, libvirt pools and       *)
(* domains).                                                               *)
(* Spec: requests served one after another: api.create and direct callers  *)
(* of createVM (clone, inject, getMountPoint, _createStoragePool), the     *)
(* script of pool.py, and the list and xml handlers. createVM stops before *)
(* _createVMFromTemplate (AfterPool), so that method, the calls that start *)
(* and stop domains and the handlers that query them have a specification  *)
(* of their own (SpecTemplate), as have concurrent workers (SpecConc), the *)
(* parsing of the system URI and of the dataset name (SpecURI) and the     *)
(* resources handler with its load-average cache (SpecUptime).             *)
(*                                                                         *)
(* Values: a Python str is a sequence of characters/tokens, None and ''    *)
(* are the empty sequence (both are falsy in the code's `if x` tests). A   *)
(* JSON body names the keys it has (`keys`); the values int() is applied   *)
(* to are JSON values with their type.                                     *)
(***************************************************************************)
EXTENDS Integers, Sequences, FiniteSets

\* ------------------------------------------------------------------ bounds
\* Number of loop device nodes the remote host has (/dev/loop0 ..).
MaxLoops == 2
\* Depth to which mounts may stack on the fixed mount point.
MaxMounts == 2
\* Number of requests served in one run of the model.
MaxRequests == 2

\* ------------------------------------------------------------------ inputs
Workers     == {"w1", "w2"}
SeqWorkers  == {"w1"}
Absent      == <<>>
GuestNames  == {<<"g1">>, <<"g2">>}
IpAddrs     == {<<"ip1">>}
DatasetArgs == {<<"a">>, <<"a", "/">>, <<"b">>}
Devices     == 1..MaxLoops
Outcomes    == {"ok", "err"}
\* the machines that run a hypervisor and a volume manager
Hosts       == {"h1", "h2"}

\* ------------------------------------------------------------------- state
VARIABLES
    pc,          \* per worker: position in create / createVM / inject
    req,         \* per worker: the request being served
    conn,        \* per worker: LVConn.conn: "none", "open", "closed"
    exitError,   \* per worker: the exception LVConn.__exit__ raised, if any
    mountPoint,  \* per worker: inject()'s local mountPoint
    loop,        \* per worker: inject()'s local loop ([] or [device])
    injret,      \* per worker: value inject()'s try/except has decided to return
    path,        \* per worker: createVM's local path
    result,      \* per worker: how the with block, or the handler outside it, ended
    log,         \* per worker: remote operations issued for the request, in order
    prior,       \* per worker: dataset name was cloned on that host by an earlier run
    datasets,    \* per host: existing cloned ZFS datasets
    loopdev,     \* per host: loop device -> backing dataset, Absent when free
    mounts,      \* per host: devices mounted on the fixed mount point, top last
    pools,       \* per host's hypervisor: defined storage pools
    domains,     \* per host's hypervisor: defined domains
    running,     \* per host's hypervisor: domains that have been started
    served,      \* history: number of requests admitted so far
    created,     \* history: artifacts the pipeline created: kind, guest, name, host
    succeeded,   \* history: dataset names of runs that returned a definition
    system,      \* LVConn under construction: the system URI it was given
    host,        \* LVConn.host, parsed from the URI
    hostString,  \* DatasetManager.hostString, the prefix of every command
    cmdline,     \* the command text handed to the shell
    lvpc,        \* how far that LVConn / DatasetManager pair has got
    datasetArg,  \* the dataset name the caller gave that DatasetManager
    datasetName, \* DatasetManager.datasetName
    definition,  \* per worker: the domain definition rendered for the call
    fileReads,   \* history: number of reads of each template file from disk
    cacheOnDisk, \* whether the load-average cache file exists
    cacheFile,   \* hosts that have an entry in the load-average cache file
    memCache,    \* the TTLCache in front of uptimeCache(): the entry written
    upLast,      \* the last call of uptimeCache(): what it read or found, how it ended
    env          \* settings.env as the import of settings.py left it

workerVars == <<pc, req, conn, exitError, mountPoint, loop, injret, path, result,
                log, prior>>
hostVars   == <<datasets, loopdev, mounts, pools, domains, running>>
histVars   == <<served, created, succeeded>>
uriVars    == <<system, host, hostString, cmdline, lvpc, datasetArg, datasetName>>
ioVars     == <<definition, fileReads>>
uptimeVars == <<cacheOnDisk, cacheFile, memCache, upLast>>
vars       == <<workerVars, hostVars, histVars, uriVars, ioVars, uptimeVars,
                env>>

\* ---------------------------------------------------------- pure functions
\* DatasetManager.__init__: one trailing '/' is dropped from a name longer
\* than one character.
Normalize(name) ==
    IF Len(name) > 1 /\ name[Len(name)] = "/"
    THEN SubSeq(name, 1, Len(name) - 1)
    ELSE name

\* socket.gethostbyname(guestName): the address as a str.
ForwardDNS(guestName) == <<"ip1">>

\* socket.gethostbyaddr(ipAddress): the triple (hostname, aliaslist,
\* ipaddrlist); createVM binds the whole triple to guestName.
ReverseDNS(ipAddress) == <<"g1", "aliases", ipAddress[1]>>

\* `if x:` on a str / None / tuple.
Truthy(x) == x # Absent

\* f'Error {err}' for the ValueError _getIO raised on command `op`.
ErrorOf(op) == <<"Error", op>>

\* DatasetManager.clone: None on success, 'Error ...' when _getIO raised.
CloneReturnM(res) ==
    Absent

CloneReturn(res) ==
    IF res = "err" THEN ErrorOf("clone") ELSE Absent

\* DatasetManager.getMountPoint: mp[0] on success; on ValueError the error
\* text is RETURNED, so the caller receives it as if it were the path.
MountPath(ds) == <<"/">> \o ds

GetMountPointReturn(res, ds) ==
    IF res = "err" THEN ErrorOf("zfs_get") ELSE MountPath(ds)

IsPath(p) == Len(p) > 1 /\ p[1] = "/"
\* the dataset whose root.raw a mount path leads to
DatasetAt(p) == Tail(p)

\* what a failed lookup raises: gethostbyname converts its argument
\* (TypeError for a value that is not a str or holds a null byte,
\* UnicodeError for a label the idna codec refuses) and resolves it through
\* getaddrinfo (socket.gaierror); gethostbyaddr does the same with its
\* argument and then asks for the reverse record (socket.herror).
ForwardFailures == {"gaierror", "UnicodeError", "TypeError"}

ReverseFailures == {"herror", "gaierror", "UnicodeError", "TypeError"}

\* createVM lines 340-353: identity validation and DNS resolution. Only
\* socket.gaierror is caught around gethostbyname and only socket.herror
\* around gethostbyaddr; any other exception of the lookup leaves createVM.
\* dnsres is "ok" or the exception the lookup raised.
\* Result: [go, guest, ip, err, exc]
ResolveIdentity(guestName, ipAddress, dnsres) ==
    IF Truthy(guestName) /\ ~Truthy(ipAddress) THEN
        IF dnsres = "ok"
        THEN [go |-> TRUE, guest |-> guestName,
              ip |-> ForwardDNS(guestName), err |-> Absent, exc |-> Absent]
        ELSE IF dnsres = "gaierror"
        THEN [go |-> FALSE, guest |-> guestName, ip |-> ipAddress,
              err |-> <<"Guest host name does not have a corresponding DNS A record">>,
              exc |-> Absent]
        ELSE [go |-> FALSE, guest |-> guestName, ip |-> ipAddress,
              err |-> Absent, exc |-> <<dnsres>>]
    ELSE IF Truthy(ipAddress) /\ ~Truthy(guestName) THEN
        IF dnsres = "ok"
        THEN [go |-> TRUE, guest |-> ReverseDNS(ipAddress),
              ip |-> ipAddress, err |-> Absent, exc |-> Absent]
        ELSE IF dnsres = "herror"
        THEN [go |-> FALSE, guest |-> guestName, ip |-> ipAddress,
              err |-> <<"Guest host IP address does not have corresponding DNS A record">>,
              exc |-> Absent]
        ELSE [go |-> FALSE, guest |-> guestName, ip |-> ipAddress,
              err |-> Absent, exc |-> <<dnsres>>]
    ELSE IF ~Truthy(ipAddress) /\ ~Truthy(guestName) THEN
        [go |-> FALSE, guest |-> guestName, ip |-> ipAddress,
         err |-> <<"Must provide either ipAddress or guestName.">>,
         exc |-> Absent]
    ELSE [go |-> TRUE, guest |-> guestName, ip |-> ipAddress, err |-> Absent,
          exc |-> Absent]

\* the outcomes the resolver can have for the lookup createVM makes
LookupOutcomes(guestName, ipAddress) ==
    IF Truthy(guestName) /\ ~Truthy(ipAddress) THEN {"ok"} \cup ForwardFailures
    ELSE IF Truthy(ipAddress) /\ ~Truthy(guestName) THEN {"ok"} \cup ReverseFailures
    ELSE {"ok"}

\* Whether createVM asks the resolver at all.
NeedsDNS(guestName, ipAddress) == Truthy(guestName) # Truthy(ipAddress)

\* createVM lines 357-359 / 362-364: `if error: return error`.
AfterCloneM(error) ==
    "inj_query"

AfterClone(error) ==
    IF Truthy(error) THEN "return" ELSE "inj_query"

AfterInjectRetry(error) ==
    IF Truthy(error) THEN "inj_query" ELSE "pool_query"

AfterInjectM(error) ==
    "pool_query"

AfterInject(error) ==
    IF Truthy(error) THEN "return" ELSE "pool_query"

\* settings.py lines 16-27: the keys the env dictionary has
EnvKeys ==
    {"DEFAULT_HOST", "VALID_HOSTS", "API_BACKEND_USER", "UPTIME_CACHE_TTL",
     "UPTIME_CACHE", "REMOTE_LOOP_MOUNTPOINT", "REMOTE_LOOP_USER",
     "DEFAULT_POOL_DEFINITION_PATH", "VALID_HOSTS_MAX"}

\* createVM lines 372-379: the arguments of _createVMFromTemplate are
\* evaluated first, and f'{env["VM_TEMPLATES_DIR"]}/{template}.xml' raises
\* KeyError for a key env does not have.
AfterPool ==
    IF "VM_TEMPLATES_DIR" \in EnvKeys THEN "dom_define" ELSE "KeyError"

\* api.create lines 312-333: what the handler passes when the body omits
\* memory, cpus and template
ApiDefaults == [memory |-> 1024, cpus |-> 1, template |-> "ubuntu"]

\* createVM lines 309-310: the defaults of its own parameters
CreateVMDefaults == [memory |-> 2048, cpus |-> 1, template |-> "ubuntu"]

\* _createVMFromTemplate line 303: mem_kiB = memory * 2 ** 10
MemKiB(memory) == memory * 2^10

\* _createVMFromTemplate line 304: baseDef.format(name, uuid, mem_kiB,
\* mem_kiB, cpus, disk, bridge)
Render(name, memory, cpus, template) ==
    [name |-> name, memory |-> MemKiB(memory), currentMemory |-> MemKiB(memory),
     vcpu |-> cpus, template |-> template]

\* _createVMFromTemplate line 305: the libvirt call that submits the domain
\* definition. defineXML registers a persistent domain and leaves it shut
\* off; createXML would also start it.
DefineCallM == "createXML"

DefineCall == "defineXML"

\* settings.py lines 16-30: validHosts is os.getenv('VALID_HOSTS') split at
\* ';', hostname is socket.gethostname(). VALID_HOSTS_MAX is the length of
\* the list as the environment gave it (line 27, duplicates counted); the
\* machine's own name is appended afterwards when the list lacks it.
Settings(validHosts, hostname) ==
    [DEFAULT_HOST    |-> hostname,
     VALID_HOSTS_MAX |-> Len(validHosts),
     VALID_HOSTS     |-> IF \E i \in DOMAIN validHosts : validHosts[i] = hostname
                         THEN validHosts
                         ELSE Append(validHosts, hostname)]

\* the environments the API is started in: the allow-list names the API
\* machine, leaves it out, or names it twice
Deployments ==
    {Settings(<<"h1", "h2">>, "h1"),
     Settings(<<"h2">>, "h1"),
     Settings(<<"h1", "h2", "h1">>, "h1")}

\* env['VALID_HOSTS'] as the `in` tests of api.py see it
ValidHosts == {env.VALID_HOSTS[i] : i \in DOMAIN env.VALID_HOSTS}

\* env['VALID_HOSTS_MAX']
ValidHostsMax == env.VALID_HOSTS_MAX

\* api.checkValidHosts, line 58
checkValidHosts(hosts) ==
    /\ Len(hosts) <= ValidHostsMax
    /\ \A i \in DOMAIN hosts : hosts[i] \in ValidHosts

\* the characters of a host name: what `*name` and `for host in name` make
\* of a str
Characters(name) ==
    CASE name = "h1" -> <<"h", "1">>
      [] name = "h2" -> <<"h", "2">>
      [] OTHER       -> <<name>>

\* how a handler ends before it has opened any connection
Rejects(kind, text) == [ok |-> FALSE, kind |-> kind, text |-> text]

Accepts == [ok |-> TRUE, kind |-> "none", text |-> Absent]

\* JSON values of a request body, with their type: an integer, true or
\* false, a str (its ASCII characters), a list (its length) and null
JNum(n) == [type |-> "number", num |-> n, str |-> <<>>]

JBool(b) == [type |-> "boolean", num |-> IF b THEN 1 ELSE 0, str |-> <<>>]

JStr(s) == [type |-> "string", num |-> 0, str |-> s]

JList(n) == [type |-> "array", num |-> n, str |-> <<>>]

JNull == [type |-> "null", num |-> 0, str |-> <<>>]

\* `if v:` on a JSON value
JTruthy(v) ==
    CASE v.type = "number" -> v.num # 0
      [] v.type = "boolean" -> v.num # 0
      [] v.type = "string" -> v.str # <<>>
      [] v.type = "array"  -> v.num # 0
      [] OTHER             -> FALSE

Digits == <<"0", "1", "2", "3", "4", "5", "6", "7", "8", "9">>

IsDigit(c) == \E i \in DOMAIN Digits : Digits[i] = c

DigitValue(c) == (CHOOSE i \in DOMAIN Digits : Digits[i] = c) - 1

RECURSIVE Decimal(_)
Decimal(s) ==
    IF s = <<>> THEN 0
    ELSE 10 * Decimal(SubSeq(s, 1, Len(s) - 1)) + DigitValue(s[Len(s)])

\* the ASCII characters int() takes for white space: space, horizontal
\* tab, line feed, carriage return, form feed and vertical tab (0x0b)
Whitespace == {" ", "\t", "\n", "\r", "\f", ""}

RECURSIVE LStrip(_)
LStrip(s) ==
    IF s # <<>> /\ s[1] \in Whitespace THEN LStrip(Tail(s)) ELSE s

RECURSIVE RStrip(_)
RStrip(s) ==
    IF s # <<>> /\ s[Len(s)] \in Whitespace
    THEN RStrip(SubSeq(s, 1, Len(s) - 1)) ELSE s

\* int(str) reads an integer literal of base 10: white space around it is
\* dropped, then comes an optional sign, then digits (leading zeros
\* allowed) with single underscores allowed between two digits
Unsigned(s) == IF s # <<>> /\ s[1] \in {"+", "-"} THEN Tail(s) ELSE s

IsLiteral(s) ==
    /\ s # <<>>
    /\ \A i \in DOMAIN s :
          \/ IsDigit(s[i])
          \/ /\ s[i] = "_"
             /\ 1 < i /\ i < Len(s)
             /\ IsDigit(s[i - 1]) /\ IsDigit(s[i + 1])

\* int(x), api.py lines 314 and 323: an integer as it is, True as 1, a str
\* parsed as an integer literal (ValueError when it is none), TypeError for
\* a list or None.
IntOf(v) ==
    CASE v.type \in {"number", "boolean"} -> [exc |-> "none", val |-> v.num]
      [] v.type = "string" ->
            LET t == RStrip(LStrip(v.str))
                n == Decimal(SelectSeq(Unsigned(t), IsDigit))
            IN
            IF IsLiteral(Unsigned(t))
            THEN [exc |-> "none", val |-> IF t[1] = "-" THEN 0 - n ELSE n]
            ELSE [exc |-> "ValueError", val |-> 0]
      [] OTHER -> [exc |-> "TypeError", val |-> 0]

\* `k in data`
Has(data, k) == k \in data.keys

\* api.create lines 312-318 and 321-327: `if k in data and data[k]: try:
\* int(data[k]) except TypeError: abort(400)`; a ValueError is caught
\* nowhere.
IntGuard(data, k) ==
    IF Has(data, k) /\ JTruthy(data[k])
    THEN CASE IntOf(data[k]).exc = "TypeError"  ->
                  Rejects("http400", <<"Bad Request">>)
           [] IntOf(data[k]).exc = "ValueError" ->
                  Rejects("raise", <<"ValueError">>)
           [] OTHER -> Accepts
    ELSE Accepts

\* api.create lines 269-328: the guards on the JSON body, in the order of
\* the code. data.present is FALSE when get_json() gave None. InvalidUsage
\* and abort(400) end the request with HTTP 400; ip_address() refuses every
\* value that is not an address, '' and None included (lines 286-295: the
\* InvalidUsage is for a body without the key); env['DEFAULT_SNAPSHOT'] is
\* a key settings.env does not have.
CreateGuards(data) ==
    IF ~data.present THEN Rejects("raise", <<"TypeError">>)
    ELSE IF Has(data, "host") /\ ~checkValidHosts(<<data.host>>)
    THEN Rejects("http400", <<"Must provide a single valid host.">>)
    ELSE IF ~(Has(data, "guestName") /\ Truthy(data.guestName))
    THEN Rejects("http400", <<"Must provide a valid guest VM name.">>)
    ELSE IF ~Has(data, "ipAddress")
    THEN Rejects("http400",
                 <<"Must provide a valid IP address to assign the guest VM.">>)
    ELSE IF data.ipAddress \notin IpAddrs
    THEN Rejects("http400", <<"Bad Request">>)
    ELSE IF ~(Has(data, "datasetName") /\ Truthy(data.datasetName))
    THEN Rejects("http400", <<"Must provide a valid dataset name to contain VM.">>)
    ELSE IF ~(Has(data, "sourceSnapshot") /\ Truthy(data.sourceSnapshot))
            /\ "DEFAULT_SNAPSHOT" \notin EnvKeys
    THEN Rejects("raise", <<"KeyError">>)
    ELSE IF ~(Has(data, "bridge") /\ Truthy(data.bridge))
    THEN Rejects("http400", <<"Must define bridge interface to use">>)
    ELSE IF ~IntGuard(data, "memory").ok THEN IntGuard(data, "memory")
    ELSE IF ~IntGuard(data, "cpus").ok THEN IntGuard(data, "cpus")
    ELSE Accepts

\* api.create lines 312-333: memory, cpus and template of the body, the
\* handler's defaults for what the body leaves out or gives a falsy value
CreateArgs(data) ==
    [memory   |-> IF Has(data, "memory") /\ JTruthy(data.memory)
                  THEN IntOf(data.memory).val ELSE ApiDefaults.memory,
     cpus     |-> IF Has(data, "cpus") /\ JTruthy(data.cpus)
                  THEN IntOf(data.cpus).val ELSE ApiDefaults.cpus,
     template |-> IF Has(data, "template") /\ data.template # ""
                  THEN data.template ELSE ApiDefaults.template]

\* api.lst lines 106-114: `not data` holds for None and for {}; 'hosts'
\* absent, null or [] is "Must list hosts."
LstGuards(data) ==
    IF ~data.present \/ data.empty
    THEN Rejects("http400", <<"Please provide a list of VMs.">>)
    ELSE IF data.hosts = <<>> THEN Rejects("http400", <<"Must list hosts.">>)
    ELSE IF ~checkValidHosts(data.hosts)
    THEN Rejects("http400", <<"Must provide valid hosts">>)
    ELSE Accepts

\* api.xml lines 163-177: only the presence of 'guests' is tested
XmlGuards(data) ==
    IF ~data.present THEN Rejects("raise", <<"TypeError">>)
    ELSE IF ~data.guestsKey
    THEN Rejects("http400", <<"Must provide a VM name or list of VMs from a host">>)
    ELSE IF data.host # "none" /\ ~checkValidHosts(<<data.host>>)
    THEN Rejects("http400", <<"Must provide a single valid host.">>)
    ELSE Accepts

\* api.resources line 225: on {} the handler stores the default host's
\* name, a str, which lines 226 and 230 then take apart into characters
ResourcesHosts(data) ==
    IF data.empty THEN Characters(env.DEFAULT_HOST) ELSE data.hosts

\* api.resources lines 223-227: `data['hosts'] = ...` on None raises
\* TypeError; a body without 'hosts' raises KeyError, `*data['hosts']` on
\* null TypeError.
ResourcesGuards(data) ==
    IF ~data.present THEN Rejects("raise", <<"TypeError">>)
    ELSE IF ~data.empty /\ ~data.hostsKey THEN Rejects("raise", <<"KeyError">>)
    ELSE IF ~data.empty /\ ~data.iterable THEN Rejects("raise", <<"TypeError">>)
    ELSE IF ~checkValidHosts(ResourcesHosts(data))
    THEN Rejects("http400", <<"Must provide valid hosts.">>)
    ELSE Accepts

\* one libvirt call a handler makes inside its with block: the call, the
\* domain it is about, and for a listing the call made on each domain it
\* returned
Call(kind, name, each) == [call |-> kind, name |-> name, each |-> each]

\* getXML lines 133-134 for each guest of xml line 182:
\* lookupByName(vm), then XMLDesc() on the domain found
GetXMLCalls(guests) ==
    [i \in 1..(2 * Len(guests)) |->
        IF i % 2 = 1 THEN Call("lookupByName", guests[(i + 1) \div 2], "none")
        ELSE Call("XMLDesc", guests[i \div 2], "none")]

\* the libvirt calls a with block starts with, in order. lst lines 120-133:
\* getDomains is listAllDomains (line 78), getActiveDomains the same
\* followed by the state of each domain (lines 91-92), getInactiveDomains
\* both (line 121). xml lines 181-183. resources lines 233-236: the three
\* getters of lines 138-166, each starting with listDomainsID (line 108).
WithBlock(r) ==
    CASE r.via = "lst" /\ r.status = "none" ->
             <<Call("listAllDomains", Absent, "none")>>
      [] r.via = "lst" /\ r.status = "active" ->
             <<Call("listAllDomains", Absent, "state")>>
      [] r.via = "lst" /\ r.status = "inactive" ->
             <<Call("listAllDomains", Absent, "none"),
               Call("listAllDomains", Absent, "state")>>
      [] r.via = "xml" -> GetXMLCalls(r.guests)
      [] r.via = "resources" ->
             <<Call("listDomainsID", Absent, "info"),
               Call("listDomainsID", Absent, "maxMemory"),
               Call("listDomainsID", Absent, "memoryStats")>>
      [] OTHER -> <<>>

\* what the block raises before it makes any call: lst lines 125-128, any
\* other status is an InvalidUsage; xml line 182, `for vm in None` is a
\* TypeError
BlockRaises(r) ==
    CASE r.via = "lst" /\ r.status \notin {"none", "active", "inactive"} ->
             Rejects("http400", <<"Must specify content 'active' or 'inactive.'">>)
      [] r.via = "xml" /\ ~r.iterable -> Rejects("raise", <<"TypeError">>)
      [] OTHER -> Accepts

\* a set of names as a list, the way the hypervisor hands it back
RECURSIVE Listing(_)
Listing(S) ==
    IF S = {} THEN <<>>
    ELSE LET x == CHOOSE y \in S : TRUE IN <<x>> \o Listing(S \ {x})

\* getActiveDomains lines 91-92: for each name of the listing,
\* lookupByName(dom) and state() on the domain found, one domain after the
\* other
StateCalls(names) ==
    [i \in 1..(2 * Len(names)) |->
        IF i % 2 = 1 THEN Call("lookupByName", names[(i + 1) \div 2], "none")
        ELSE Call("state", names[i \div 2], "none")]

\* _getActiveDomainObjects lines 110-112 and the getter that called it
\* (lines 144, 155, 164): lookupByID for every id of the listing, and only
\* then the getter's call on each domain object
ObjectCalls(names, each) ==
    [i \in DOMAIN names |-> Call("lookupByID", names[i], "none")] \o
    [i \in DOMAIN names |-> Call(each, names[i], "none")]

\* pool name / domain name handed to libvirt: the guest name.
PoolName(r) ==
    r.guest

\* inject()'s finally block after `umount`: a ValueError is swallowed; on
\* success the next command text is built from loop[0], which raises
\* IndexError when no loop device was attached (loop == []).
CleanupAfterUmountM(res, lp) ==
    IF res = "err" THEN "propagate"
    ELSE IF lp = <<>> THEN "IndexError" ELSE "detach"

CleanupAfterUmount(res, lp) ==
    IF res = "err" THEN "swallow"
    ELSE IF lp = <<>> THEN "IndexError" ELSE "detach"

\* inject()'s finally block after `losetup -d`: ValueError is swallowed.
CleanupAfterDetach(res) ==
    "swallow"

\* ---------------------------------------------------------- request values
NoArgs == [memory |-> 0, cpus |-> 0, template |-> "none"]

\* the fields of a request: the host its LVConn names (LVConn.host, which
\* createVM hands to its DatasetManager, line 356), the arguments of
\* createVM (dataset, guest, ip
\* as they stand, argGuest and argIp as the caller gave them, memory, cpus,
\* template, and whether all three were left to a default), and what the
\* list / xml / resources handlers keep (the hosts still to visit, the
\* status filter, the guests asked for and whether they can be iterated,
\* whether the body had a 'host' key, the libvirt calls left in the current
\* with block), and the method a caller managing a domain calls
Request(via, ds, g, ip, args, omitted) ==
    [via |-> via, host |-> "h1", dataset |-> ds, guest |-> g, ip |-> ip,
     argGuest |-> g, argIp |-> ip,
     memory |-> args.memory, cpus |-> args.cpus, template |-> args.template,
     omitted |-> omitted,
     hosts |-> <<>>, status |-> "none", guests |-> <<>>, iterable |-> TRUE,
     hostKey |-> FALSE, todo |-> <<>>, method |-> "none"]

NoRequest == Request("none", Absent, Absent, Absent, NoArgs, FALSE)

NoResult  == [kind |-> "none", text |-> Absent]
NoDefinition == [name |-> Absent, memory |-> 0, currentMemory |-> 0,
                 vcpu |-> 0, template |-> "none"]
TemplateFiles == {"pool", "vm"}
EmptyCache == [written |-> FALSE, hosts |-> {}]
NoCall == [kind |-> "none", file |-> {}, result |-> "none", entry |-> {}]

\* the API process and the host's volumes before the first request
Fresh ==
    /\ pc = [w \in Workers |-> "idle"]
    /\ req = [w \in Workers |-> NoRequest]
    /\ conn = [w \in Workers |-> "none"]
    /\ exitError = [w \in Workers |-> Absent]
    /\ mountPoint = [w \in Workers |-> Absent]
    /\ loop = [w \in Workers |-> <<>>]
    /\ injret = [w \in Workers |-> Absent]
    /\ path = [w \in Workers |-> Absent]
    /\ result = [w \in Workers |-> NoResult]
    /\ log = [w \in Workers |-> <<>>]
    /\ prior = [w \in Workers |-> FALSE]
    /\ datasets = [h \in Hosts |-> {}]
    /\ loopdev = [h \in Hosts |-> [d \in Devices |-> Absent]]
    /\ mounts = [h \in Hosts |-> <<>>]
    /\ pools = [h \in Hosts |-> {}]
    /\ served = 0
    /\ created = {}
    /\ succeeded = {}
    /\ system = <<>>
    /\ host = <<>>
    /\ hostString = <<>>
    /\ cmdline = <<>>
    /\ lvpc = "new"
    /\ datasetArg = <<>>
    /\ datasetName = <<>>
    /\ definition = [w \in Workers |-> NoDefinition]
    /\ fileReads = [f \in TemplateFiles |-> 0]
    /\ cacheOnDisk = FALSE
    /\ cacheFile = {}
    /\ memCache = EmptyCache
    /\ upLast = NoCall
    /\ env \in Deployments

\* hypervisors that have no domain yet
Init ==
    /\ Fresh
    /\ domains = [h \in Hosts |-> {}]
    /\ running = [h \in Hosts |-> {}]

\* hypervisors that already have guests, some of them running
InitHosted ==
    /\ Fresh
    /\ domains \in [Hosts -> SUBSET GuestNames]
    /\ running \in [Hosts -> SUBSET GuestNames]
    /\ \A h \in Hosts : running[h] \subseteq domains[h]
    /\ domains["h2"] \subseteq {<<"g2">>}

\* ----------------------------------------------------------------- helpers
Op(op, res, stage) == [op |-> op, res |-> res, stage |-> stage]

Logged(w, op, res, stage) ==
    log' = [log EXCEPT ![w] = Append(@, Op(op, res, stage))]

Goto(w, label) == pc' = [pc EXCEPT ![w] = label]

\* the log of the current request
Count(w, op) == Cardinality({i \in DOMAIN log[w] : log[w][i].op = op})

Issued(w, op, res) ==
    \E i \in DOMAIN log[w] : log[w][i].op = op /\ log[w][i].res = res

\* `with LVConn(...) as lv:` (api.py lines 336-338, 120, 132, 181, 233):
\* __exit__ runs however the block is left, by a return or by an exception.
LeaveWith(kind) ==
    "exit"

\* the body of the with block ends: `return <value>` or an exception
\* leaves it.
Ends(w, kind, text) ==
    /\ result' = [result EXCEPT ![w] = [kind |-> kind, text |-> text]]
    /\ Goto(w, IF conn[w] = "open" THEN LeaveWith(kind) ELSE "done")

\* the dataset name the DatasetManager of this request holds
DatasetName(w) == Normalize(req[w].dataset)

\* the host the DatasetManager and the LVConn of w's request work on
HostOf(w) == req[w].host

FreeDevices(h) == {d \in Devices : loopdev[h][d] = Absent}
\* losetup -f: the first unused loop device
FirstFree(h) == CHOOSE d \in FreeDevices(h) : \A e \in FreeDevices(h) : d <= e

\* ------------------------------------------------------- request admission
\* a worker takes up request r: the locals of the previous one are gone
Admit(w, r) ==
    /\ served < MaxRequests
    /\ served' = served + 1
    /\ req' = [req EXCEPT ![w] = r]
    /\ definition' = [definition EXCEPT ![w] = NoDefinition]
    /\ conn' = [conn EXCEPT ![w] = "none"]
    /\ exitError' = [exitError EXCEPT ![w] = Absent]
    /\ mountPoint' = [mountPoint EXCEPT ![w] = Absent]
    /\ loop' = [loop EXCEPT ![w] = <<>>]
    /\ injret' = [injret EXCEPT ![w] = Absent]
    /\ path' = [path EXCEPT ![w] = Absent]
    /\ log' = [log EXCEPT ![w] = <<>>]
    /\ prior' = [prior EXCEPT ![w] =
                    \E c \in created : /\ c[1] = "dataset"
                                       /\ c[3] = Normalize(r.dataset)
                                       /\ c[4] = r.host]
    /\ UNCHANGED <<hostVars, created, succeeded>>

\* the handler's guards decide: on to `with LVConn(...)`, or the request is
\* over before any connection is opened
Guarded(w, verdict) ==
    IF verdict.ok
    THEN /\ Goto(w, "enter")
         /\ result' = [result EXCEPT ![w] = NoResult]
    ELSE /\ Goto(w, "done")
         /\ result' = [result EXCEPT ![w] =
                         [kind |-> verdict.kind, text |-> verdict.text]]

\* the keys of a body of /api/create that leaves memory, cpus and
\* template out
CreateKeys ==
    {"host", "guestName", "ipAddress", "datasetName", "sourceSnapshot", "bridge"}

\* JSON bodies POSTed to /api/create: complete bodies for each dataset
\* and guest name on host h1, bodies that name host h2, and one body for
\* each thing a body can lack or get wrong. A key that is not in `keys`
\* has the value None / null here.
CreateBody(ds, g) ==
    [present |-> TRUE, keys |-> CreateKeys,
     host |-> "h1", guestName |-> g, ipAddress |-> <<"ip1">>,
     datasetName |-> ds, sourceSnapshot |-> <<"img@s">>, bridge |-> <<"br0">>,
     memory |-> JNull, cpus |-> JNull, template |-> ""]

CreateBodies ==
    LET b == CreateBody(<<"a">>, <<"g1">>) IN
    {CreateBody(ds, g) : ds \in DatasetArgs, g \in GuestNames} \cup
    { [b EXCEPT !.host = "h2"],
      [CreateBody(<<"b">>, <<"g1">>) EXCEPT !.host = "h2"],
      [b EXCEPT !.present = FALSE],
      [b EXCEPT !.keys = {}, !.host = "none", !.guestName = Absent,
                !.ipAddress = Absent, !.datasetName = Absent,
                !.sourceSnapshot = Absent, !.bridge = Absent],
      [b EXCEPT !.keys = @ \ {"host"}, !.host = "none"],
      [b EXCEPT !.host = "evil"],
      [b EXCEPT !.keys = @ \ {"guestName"}, !.guestName = Absent],
      [b EXCEPT !.guestName = Absent],
      [b EXCEPT !.keys = @ \ {"ipAddress"}, !.ipAddress = Absent],
      [b EXCEPT !.ipAddress = Absent],
      [b EXCEPT !.ipAddress = <<"notanip">>],
      [b EXCEPT !.keys = @ \ {"guestName", "ipAddress"},
                !.guestName = Absent, !.ipAddress = Absent],
      [b EXCEPT !.keys = @ \ {"datasetName"}, !.datasetName = Absent],
      [b EXCEPT !.keys = @ \ {"sourceSnapshot"}, !.sourceSnapshot = Absent],
      [b EXCEPT !.keys = @ \ {"bridge"}, !.bridge = Absent],
      [b EXCEPT !.keys = @ \cup {"memory", "cpus", "template"},
                !.memory = JNum(512), !.cpus = JNum(2), !.template = "debian"],
      [b EXCEPT !.keys = @ \cup {"memory", "cpus"},
                !.memory = JStr(<<" ", "+", "5", "_", "1", "2", "\n">>),
                !.cpus = JNum(0)],
      [b EXCEPT !.keys = @ \cup {"memory", "cpus"},
                !.memory = JStr(<<"", "0", "5", "1", "2", "">>),
                !.cpus = JStr(<<"-", "1">>)],
      [b EXCEPT !.keys = @ \cup {"memory", "cpus"},
                !.memory = JBool(FALSE), !.cpus = JBool(TRUE)],
      [b EXCEPT !.keys = @ \cup {"memory"}, !.memory = JStr(<<"a", "b", "c">>)],
      [b EXCEPT !.keys = @ \cup {"memory"},
                !.memory = JStr(<<"5", "_", "_", "1">>)],
      [b EXCEPT !.keys = @ \cup {"memory"}, !.memory = JStr(<<"+", " ", "5">>)],
      [b EXCEPT !.keys = @ \cup {"cpus"}, !.cpus = JStr(<<" ">>)],
      [b EXCEPT !.keys = @ \cup {"memory"}, !.memory = JList(1)],
      [b EXCEPT !.keys = @ \cup {"cpus"}, !.cpus = JStr(<<"a", "b", "c">>)],
      [b EXCEPT !.keys = @ \cup {"cpus"}, !.cpus = JList(1)] }

\* api.create: the handler validates the JSON body, then enters LVConn
\* on the host of the body (lines 271-279: env['DEFAULT_HOST'] for a body
\* without 'host') and runs createVM with the fields of the body.
ApiCreate(w) ==
    /\ pc[w] \in {"idle", "done"}
    /\ \E data \in CreateBodies :
        LET verdict == CreateGuards(data)
            omitted == data.keys \cap {"memory", "cpus", "template"} = {}
        IN
        /\ Admit(w, [Request("api", data.datasetName, data.guestName,
                             IF data.ipAddress \in IpAddrs THEN data.ipAddress
                             ELSE Absent,
                             IF verdict.ok THEN CreateArgs(data) ELSE NoArgs,
                             omitted)
                        EXCEPT !.host = IF Has(data, "host") THEN data.host
                                        ELSE env.DEFAULT_HOST])
        /\ Guarded(w, verdict)
    /\ UNCHANGED uriVars
    /\ UNCHANGED fileReads
    /\ UNCHANGED <<uptimeVars, env>>

\* a caller of the library: `with LVConn(uri) as lv: await lv.createVM(
\* dataset, snapshot, guestName, ipAddress, bridge)`, the uri naming host
\* h1, memory, cpus and template left to the defaults of createVM's
\* signature.
DirectCall(w) ==
    /\ pc[w] \in {"idle", "done"}
    /\ \E ds \in DatasetArgs, g \in GuestNames \cup {Absent},
          ip \in IpAddrs \cup {Absent} :
        /\ Admit(w, Request("direct", ds, g, ip, CreateVMDefaults, TRUE))
        /\ Goto(w, "enter")
        /\ result' = [result EXCEPT ![w] = NoResult]
    /\ UNCHANGED uriVars
    /\ UNCHANGED fileReads
    /\ UNCHANGED <<uptimeVars, env>>

\* libvirtConnector.py run as a script: exampleCreation() calls createVM
\* with a guest name, an address, memory=1024 and cpus=1.
ExampleCreation(w) ==
    /\ pc[w] \in {"idle", "done"}
    /\ Admit(w, Request("direct", <<"a">>, <<"g1">>, <<"ip1">>,
                        [memory |-> 1024, cpus |-> 1,
                         template |-> CreateVMDefaults.template], FALSE))
    /\ Goto(w, "enter")
    /\ result' = [result EXCEPT ![w] = NoResult]
    /\ UNCHANGED uriVars
    /\ UNCHANGED fileReads
    /\ UNCHANGED <<uptimeVars, env>>

\* pool.py run as a script: getResults() builds a DatasetManager and calls
\* clone() and then inject(), whatever clone() returned; no LVConn is
\* opened.
PoolExample(w) ==
    /\ pc[w] \in {"idle", "done"}
    /\ Admit(w, Request("pool", <<"b">>, <<"g1">>, <<"ip1">>, NoArgs, FALSE))
    /\ Goto(w, "clone")
    /\ result' = [result EXCEPT ![w] = NoResult]
    /\ UNCHANGED uriVars
    /\ UNCHANGED fileReads
    /\ UNCHANGED <<uptimeVars, env>>

\* what the list, xml and resources handlers keep of an accepted body
Inspect(via, hosts, status, guests, hostKey) ==
    [Request(via, Absent, Absent, Absent, NoArgs, FALSE)
        EXCEPT !.hosts = hosts, !.status = status, !.guests = guests,
               !.hostKey = hostKey]

\* JSON bodies POSTed to /api/list
HostLists == {<<>>, <<"x">>, <<"h1">>, <<"h1", "h2">>, <<"h1", "h2", "h1">>}

StatusArgs == {"none", "active", "inactive", "bogus"}

LstBodies ==
    {[present |-> TRUE, empty |-> FALSE, hosts |-> hs, status |-> st] :
        hs \in HostLists, st \in StatusArgs}
    \cup {[present |-> FALSE, empty |-> FALSE, hosts |-> <<>>, status |-> "none"],
          [present |-> TRUE, empty |-> TRUE, hosts |-> <<>>, status |-> "none"]}

\* api.lst, lines 106-116: the guards, then one with block per host.
ApiLst(w) ==
    /\ pc[w] \in {"idle", "done"}
    /\ \E data \in LstBodies :
        /\ Admit(w, Inspect("lst", data.hosts, data.status, <<>>, FALSE))
        /\ Guarded(w, LstGuards(data))
    /\ UNCHANGED uriVars
    /\ UNCHANGED fileReads
    /\ UNCHANGED <<uptimeVars, env>>

\* JSON bodies POSTed to /api/xml; guestsNull: the body has "guests": null
GuestLists == {<<>>, <<<<"g1">>>>, <<<<"g1">>, <<"g2">>>>}

XmlBodies ==
    {[present |-> TRUE, guestsKey |-> TRUE, guestsNull |-> FALSE,
      guests |-> gs, host |-> h] :
        gs \in GuestLists, h \in {"none", "h1", "x"}}
    \cup {[present |-> TRUE, guestsKey |-> TRUE, guestsNull |-> TRUE,
           guests |-> <<>>, host |-> "h1"],
          [present |-> TRUE, guestsKey |-> FALSE, guestsNull |-> FALSE,
           guests |-> <<>>, host |-> "h1"],
          [present |-> FALSE, guestsKey |-> FALSE, guestsNull |-> FALSE,
           guests |-> <<>>, host |-> "none"]}

\* api.xml, lines 163-180: the guards; a body without 'host' is served by
\* env['DEFAULT_HOST'].
ApiXml(w) ==
    /\ pc[w] \in {"idle", "done"}
    /\ \E data \in XmlBodies :
        /\ Admit(w, [Inspect("xml",
                             <<IF data.host = "none" THEN env.DEFAULT_HOST
                               ELSE data.host>>,
                             "none", data.guests, data.host # "none")
                        EXCEPT !.iterable = ~data.guestsNull])
        /\ Guarded(w, XmlGuards(data))
    /\ UNCHANGED uriVars
    /\ UNCHANGED fileReads
    /\ UNCHANGED <<uptimeVars, env>>

\* JSON bodies POSTed to /api/resources: None, {}, a body without 'hosts',
\* "hosts": null, and lists of hosts, the empty list among them
ResourcesBodies ==
    {[present |-> TRUE, empty |-> FALSE, hostsKey |-> TRUE, iterable |-> TRUE,
      hosts |-> hs] :
        hs \in {<<>>, <<"x">>, <<"h1">>, <<"h2">>, <<"h1", "h2">>}}
    \cup {[present |-> FALSE, empty |-> FALSE, hostsKey |-> FALSE,
           iterable |-> FALSE, hosts |-> <<>>],
          [present |-> TRUE, empty |-> TRUE, hostsKey |-> FALSE,
           iterable |-> FALSE, hosts |-> <<>>],
          [present |-> TRUE, empty |-> FALSE, hostsKey |-> FALSE,
           iterable |-> FALSE, hosts |-> <<>>],
          [present |-> TRUE, empty |-> FALSE, hostsKey |-> TRUE,
           iterable |-> FALSE, hosts |-> <<>>]}

\* api.resources, lines 223-241: the guards, then one with block per host;
\* for no host at all the loop of line 230 is over at once and line 241
\* answers.
ApiResources(w) ==
    /\ pc[w] \in {"idle", "done"}
    /\ \E data \in ResourcesBodies :
        LET verdict == ResourcesGuards(data) IN
        /\ Admit(w, Inspect("resources", ResourcesHosts(data), "none", <<>>,
                            FALSE))
        /\ IF verdict.ok /\ ResourcesHosts(data) = <<>>
           THEN /\ Goto(w, "done")
                /\ result' = [result EXCEPT ![w] =
                                [kind |-> "json", text |-> Absent]]
           ELSE Guarded(w, verdict)
    /\ UNCHANGED uriVars
    /\ UNCHANGED fileReads
    /\ UNCHANGED <<uptimeVars, env>>

\* the methods of LVConn that start and stop a domain
ManageMethods == {"startVM", "shutdownVM", "terminateVM"}

\* a caller of the library manages a domain:
\* `with LVConn(uri) as lv: lv.startVM(name)` (or shutdownVM, terminateVM).
ManageCall(w) ==
    /\ pc[w] \in {"idle", "done"}
    /\ \E g \in GuestNames, m \in ManageMethods :
        Admit(w, [Request("manage", Absent, g, Absent, NoArgs, FALSE)
                     EXCEPT !.method = m])
    /\ Goto(w, "enter")
    /\ result' = [result EXCEPT ![w] = NoResult]
    /\ UNCHANGED uriVars
    /\ UNCHANGED fileReads
    /\ UNCHANGED <<uptimeVars, env>>

\* what the hypervisor of the host a handler's current with block is
\* connected to has
DomainsOn(h) == IF h \in Hosts THEN domains[h] ELSE {}

RunningOn(h) == IF h \in Hosts THEN running[h] ELSE {}

\* the calls that follow call c once it has returned its listing
Expand(c, h) ==
    CASE c.call = "listAllDomains" /\ c.each # "none" ->
             StateCalls(Listing(DomainsOn(h)))
      [] c.call = "listDomainsID" ->
             ObjectCalls(Listing(RunningOn(h)), c.each)
      [] OTHER -> <<>>

\* whether the hypervisor of host h can answer call c: a lookup finds only
\* a domain the host has, by id only one that runs
Answers(c, h) ==
    CASE c.call = "lookupByName" -> c.name \in DomainsOn(h)
      [] c.call = "lookupByID"   -> c.name \in RunningOn(h)
      [] OTHER                   -> TRUE

\* one libvirt call inside the with block of lst, xml or resources. A
\* libvirtError is caught nowhere in the handlers.
Query(w) ==
    /\ pc[w] = "query"
    /\ \E res \in Outcomes :
        LET c    == req[w].todo[1]
            h    == req[w].hosts[1]
            rest == Expand(c, h) \o Tail(req[w].todo)
        IN
        /\ res = "ok" => Answers(c, h)
        /\ Logged(w, "query", res, 0)
        /\ IF res = "ok"
           THEN /\ req' = [req EXCEPT ![w].todo = rest]
                /\ Goto(w, IF rest = <<>> THEN "exit" ELSE "query")
                /\ UNCHANGED result
           ELSE /\ Ends(w, "raise", <<"libvirtError">>)
                /\ UNCHANGED req
    /\ UNCHANGED <<conn, exitError, mountPoint, loop, injret, path, prior,
                   hostVars, histVars>>
    /\ UNCHANGED uriVars
    /\ UNCHANGED ioVars
    /\ UNCHANGED <<uptimeVars, env>>

\* what runs first inside the with block once the connection is open
EnterBlock(w) ==
    CASE req[w].via \in {"api", "direct"} ->
            Goto(w, "validate") /\ UNCHANGED <<result, req>>
      [] req[w].via = "template" ->
            Goto(w, "dom_define") /\ UNCHANGED <<result, req>>
      [] req[w].via = "manage" ->
            Goto(w, "manage") /\ UNCHANGED <<result, req>>
      [] OTHER ->
            IF ~BlockRaises(req[w]).ok
            THEN /\ result' = [result EXCEPT ![w] =
                       [kind |-> BlockRaises(req[w]).kind,
                        text |-> BlockRaises(req[w]).text]]
                 /\ Goto(w, LeaveWith(BlockRaises(req[w]).kind))
                 /\ UNCHANGED req
            ELSE /\ req' = [req EXCEPT ![w].todo = WithBlock(req[w])]
                 /\ Goto(w, IF WithBlock(req[w]) = <<>> THEN "exit" ELSE "query")
                 /\ UNCHANGED result

\* LVConn.__enter__: lv.open(self.system); raises when it cannot connect.
Enter(w) ==
    /\ pc[w] = "enter"
    /\ \E res \in Outcomes :
        /\ Logged(w, "open", res, 0)
        /\ IF res = "ok"
           THEN /\ conn' = [conn EXCEPT ![w] = "open"]
                /\ EnterBlock(w)
                /\ UNCHANGED exitError
           ELSE /\ result' = [result EXCEPT ![w] =
                                [kind |-> "raise", text |-> <<"libvirtError">>]]
                /\ Goto(w, "done")
                /\ UNCHANGED <<conn, exitError, req>>
    /\ UNCHANGED <<mountPoint, loop, injret, path, prior, hostVars, histVars>>
    /\ UNCHANGED uriVars
    /\ UNCHANGED ioVars
    /\ UNCHANGED <<uptimeVars, env>>

\* createVM lines 340-353.
Validate(w) ==
    /\ pc[w] = "validate"
    /\ \E dnsres \in LookupOutcomes(req[w].guest, req[w].ip) :
        LET r == ResolveIdentity(req[w].guest, req[w].ip, dnsres) IN
        /\ IF NeedsDNS(req[w].guest, req[w].ip)
           THEN Logged(w, "dns", IF dnsres = "ok" THEN "ok" ELSE "err", 0)
           ELSE UNCHANGED log
        /\ req' = [req EXCEPT ![w].guest = r.guest, ![w].ip = r.ip]
        /\ IF r.go
           THEN Goto(w, "clone") /\ UNCHANGED result
           ELSE IF Truthy(r.exc)
           THEN Ends(w, "raise", r.exc)
           ELSE Ends(w, "error", r.err)
    /\ UNCHANGED <<conn, exitError, mountPoint, loop, injret, path, prior,
                   hostVars, histVars>>
    /\ UNCHANGED uriVars
    /\ UNCHANGED ioVars
    /\ UNCHANGED <<uptimeVars, env>>

\* createVM lines 356-359 with DatasetManager.clone: `zfs clone`.
\* The volume manager refuses to clone onto an existing dataset.
\* getResults() of pool.py goes on to inject() whatever clone() returned.
Clone(w) ==
    /\ pc[w] = "clone"
    /\ \E res \in Outcomes :
        LET error == CloneReturn(res) IN
        /\ res = "ok" => DatasetName(w) \notin datasets[HostOf(w)]
        /\ Logged(w, "clone", res, 1)
        /\ IF res = "ok"
           THEN /\ datasets' = [datasets EXCEPT ![HostOf(w)] =
                                   @ \cup {DatasetName(w)}]
                /\ created' = IF req[w].via = "pool" THEN created
                              ELSE created \cup
                                   {<<"dataset", req[w].guest, DatasetName(w),
                                      HostOf(w)>>}
           ELSE UNCHANGED <<datasets, created>>
        /\ IF req[w].via = "pool"
           THEN Goto(w, "inj_query") /\ UNCHANGED result
           ELSE IF AfterClone(error) = "return"
           THEN Ends(w, "error", error)
           ELSE Goto(w, AfterClone(error)) /\ UNCHANGED result
    /\ UNCHANGED <<req, conn, exitError, mountPoint, loop, injret, path, prior,
                   loopdev, mounts, pools, domains, running, served, succeeded>>
    /\ UNCHANGED uriVars
    /\ UNCHANGED ioVars
    /\ UNCHANGED <<uptimeVars, env>>

\* inject line 79: mountPoint = await self.getMountPoint().
\* `zfs get mountpoint` answers only for a dataset that exists.
InjQuery(w) ==
    /\ pc[w] = "inj_query"
    /\ \E res \in Outcomes :
        /\ res = "ok" => DatasetName(w) \in datasets[HostOf(w)]
        /\ Logged(w, "zfs_get", res, 2)
        /\ mountPoint' = [mountPoint EXCEPT ![w] =
                            GetMountPointReturn(res, DatasetName(w))]
    /\ Goto(w, "inj_attach")
    /\ UNCHANGED <<req, conn, exitError, loop, injret, path, result, prior,
                   hostVars, histVars>>
    /\ UNCHANGED uriVars
    /\ UNCHANGED ioVars
    /\ UNCHANGED <<uptimeVars, env>>

\* inject line 82: loop = losetup -fvP --show <mountPoint>/root.raw.
\* losetup attaches only an existing image and only while a device is free.
InjAttach(w) ==
    /\ pc[w] = "inj_attach"
    /\ \E res \in Outcomes :
        /\ res = "ok" => /\ IsPath(mountPoint[w])
                         /\ DatasetAt(mountPoint[w]) \in datasets[HostOf(w)]
                         /\ FreeDevices(HostOf(w)) # {}
        /\ Logged(w, "losetup", res, 2)
        /\ IF res = "ok"
           THEN /\ loopdev' = [loopdev EXCEPT ![HostOf(w)][FirstFree(HostOf(w))] =
                                  DatasetAt(mountPoint[w])]
                /\ loop' = [loop EXCEPT ![w] = <<FirstFree(HostOf(w))>>]
                /\ Goto(w, "inj_mount")
                /\ UNCHANGED injret
           ELSE /\ injret' = [injret EXCEPT ![w] = ErrorOf("losetup")]
                /\ Goto(w, "inj_umount")
                /\ UNCHANGED <<loopdev, loop>>
    /\ UNCHANGED <<req, conn, exitError, mountPoint, path, result, prior,
                   datasets, mounts, pools, domains, running, histVars>>
    /\ UNCHANGED uriVars
    /\ UNCHANGED ioVars
    /\ UNCHANGED <<uptimeVars, env>>

\* inject line 83: mount <loop[0]>p1 <fixed mount point>.
InjMount(w) ==
    /\ pc[w] = "inj_mount"
    /\ \E res \in Outcomes :
        /\ res = "ok" => Len(mounts[HostOf(w)]) < MaxMounts
        /\ Logged(w, "mount", res, 2)
        /\ IF res = "ok"
           THEN /\ mounts' = [mounts EXCEPT ![HostOf(w)] = Append(@, loop[w][1])]
                /\ Goto(w, "inj_addr")
                /\ UNCHANGED injret
           ELSE /\ injret' = [injret EXCEPT ![w] = ErrorOf("mount")]
                /\ Goto(w, "inj_umount")
                /\ UNCHANGED mounts
    /\ UNCHANGED <<req, conn, exitError, mountPoint, loop, path, result, prior,
                   datasets, loopdev, pools, domains, running, histVars>>
    /\ UNCHANGED uriVars
    /\ UNCHANGED ioVars
    /\ UNCHANGED <<uptimeVars, env>>

\* inject line 86: echo "    address <ip>" >> <mount point>/etc/network/interfaces.
InjWriteAddr(w) ==
    /\ pc[w] = "inj_addr"
    /\ \E res \in Outcomes :
        /\ Logged(w, "write_addr", res, 2)
        /\ IF res = "ok"
           THEN Goto(w, "inj_host") /\ UNCHANGED injret
           ELSE /\ injret' = [injret EXCEPT ![w] = ErrorOf("write_addr")]
                /\ Goto(w, "inj_umount")
    /\ UNCHANGED <<req, conn, exitError, mountPoint, loop, path, result, prior,
                   hostVars, histVars>>
    /\ UNCHANGED uriVars
    /\ UNCHANGED ioVars
    /\ UNCHANGED <<uptimeVars, env>>

\* inject line 87: echo <hostname> > <mount point>/etc/hostname; the try
\* block then falls through to finally with nothing to return.
InjWriteHost(w) ==
    /\ pc[w] = "inj_host"
    /\ \E res \in Outcomes :
        /\ Logged(w, "write_host", res, 2)
        /\ injret' = [injret EXCEPT ![w] =
                        IF res = "ok" THEN Absent ELSE ErrorOf("write_host")]
    /\ Goto(w, "inj_umount")
    /\ UNCHANGED <<req, conn, exitError, mountPoint, loop, path, result, prior,
                   hostVars, histVars>>
    /\ UNCHANGED uriVars
    /\ UNCHANGED ioVars
    /\ UNCHANGED <<uptimeVars, env>>

\* what clone() returned to the caller earlier in this run
CloneReturned(w) == CloneReturn(IF Issued(w, "clone", "err") THEN "err" ELSE "ok")

\* inject() hands injret back to createVM, lines 362-364; getResults() of
\* pool.py prints what clone() and inject() returned.
InjectReturns(w) ==
    IF req[w].via = "pool"
    THEN Ends(w, "printed", CloneReturned(w) \o injret[w])
    ELSE IF AfterInject(injret[w]) = "return"
    THEN Ends(w, "error", injret[w])
    ELSE Goto(w, AfterInject(injret[w])) /\ UNCHANGED result

\* inject line 100, in finally: umount <fixed mount point>. It is issued
\* whether or not this invocation mounted anything; umount succeeds only
\* when something is mounted there, and takes the topmost mount away.
InjUmount(w) ==
    /\ pc[w] = "inj_umount"
    /\ \E res \in Outcomes :
        LET after == CleanupAfterUmount(res, loop[w]) IN
        /\ res = "ok" => mounts[HostOf(w)] # <<>>
        /\ Logged(w, "umount", res, 2)
        /\ mounts' = IF res = "ok"
                     THEN [mounts EXCEPT ![HostOf(w)] = SubSeq(@, 1, Len(@) - 1)]
                     ELSE mounts
        /\ CASE after = "detach"     -> Goto(w, "inj_detach") /\ UNCHANGED result
             [] after = "IndexError" -> Ends(w, "raise", <<"IndexError">>)
             [] after = "propagate"  -> Ends(w, "raise", <<"ValueError">>)
             [] OTHER                -> InjectReturns(w)
    /\ UNCHANGED <<req, conn, exitError, mountPoint, loop, injret, path, prior,
                   datasets, loopdev, pools, domains, running, histVars>>
    /\ UNCHANGED uriVars
    /\ UNCHANGED ioVars
    /\ UNCHANGED <<uptimeVars, env>>

\* inject line 101, in finally: losetup -d <loop[0]>.
InjDetach(w) ==
    /\ pc[w] = "inj_detach"
    /\ \E res \in Outcomes :
        /\ res = "ok" => loopdev[HostOf(w)][loop[w][1]] # Absent
        /\ Logged(w, "losetup_d", res, 2)
        /\ loopdev' = IF res = "ok"
                      THEN [loopdev EXCEPT ![HostOf(w)][loop[w][1]] = Absent]
                      ELSE loopdev
        /\ IF CleanupAfterDetach(res) = "propagate"
           THEN Ends(w, "raise", <<"ValueError">>)
           ELSE InjectReturns(w)
    /\ UNCHANGED <<req, conn, exitError, mountPoint, loop, injret, path, prior,
                   datasets, mounts, pools, domains, running, histVars>>
    /\ UNCHANGED uriVars
    /\ UNCHANGED ioVars
    /\ UNCHANGED <<uptimeVars, env>>

\* createVM line 367: path = await dmh.getMountPoint().
PoolQuery(w) ==
    /\ pc[w] = "pool_query"
    /\ \E res \in Outcomes :
        /\ res = "ok" => DatasetName(w) \in datasets[HostOf(w)]
        /\ Logged(w, "zfs_get", res, 3)
        /\ path' = [path EXCEPT ![w] = GetMountPointReturn(res, DatasetName(w))]
    /\ Goto(w, "pool_define")
    /\ UNCHANGED <<req, conn, exitError, mountPoint, loop, injret, result, prior,
                   hostVars, histVars>>
    /\ UNCHANGED uriVars
    /\ UNCHANGED ioVars
    /\ UNCHANGED <<uptimeVars, env>>

\* _createStoragePool line 282: conn.storagePoolDefineXML(...). libvirt
\* rejects a second pool of the same name; a libvirtError is not caught
\* anywhere in createVM.
PoolDefine(w) ==
    /\ pc[w] = "pool_define"
    /\ \E res \in Outcomes :
        /\ res = "ok" => \A p \in pools[HostOf(w)] : p.name # PoolName(req[w])
        /\ Logged(w, "pool_define", res, 3)
        /\ IF res = "ok"
           THEN /\ pools' = [pools EXCEPT ![HostOf(w)] =
                                @ \cup {[name |-> PoolName(req[w]),
                                         path |-> path[w], autostart |-> FALSE]}]
                /\ created' = created \cup
                      {<<"pool", req[w].guest, PoolName(req[w]), HostOf(w)>>}
                /\ Goto(w, "pool_autostart")
                /\ UNCHANGED result
           ELSE /\ Ends(w, "raise", <<"libvirtError">>)
                /\ UNCHANGED <<pools, created>>
    /\ UNCHANGED <<req, conn, exitError, mountPoint, loop, injret, path, prior,
                   datasets, loopdev, mounts, domains, running, served, succeeded>>
    /\ UNCHANGED uriVars
    /\ fileReads' = [fileReads EXCEPT !["pool"] = @ + 1]
    /\ UNCHANGED definition
    /\ UNCHANGED <<uptimeVars, env>>

\* _createStoragePool line 284: pool.setAutostart(1).
PoolAutostart(w) ==
    /\ pc[w] = "pool_autostart"
    /\ \E res \in Outcomes :
        /\ Logged(w, "pool_autostart", res, 3)
        /\ IF res = "ok"
           THEN /\ pools' = [pools EXCEPT ![HostOf(w)] =
                                {IF p.name = PoolName(req[w])
                                 THEN [p EXCEPT !.autostart = TRUE] ELSE p :
                                    p \in @}]
                /\ Goto(w, "pool_lookup")
                /\ UNCHANGED result
           ELSE /\ Ends(w, "raise", <<"libvirtError">>)
                /\ UNCHANGED pools
    /\ UNCHANGED <<req, conn, exitError, mountPoint, loop, injret, path, prior,
                   datasets, loopdev, mounts, domains, running, histVars>>
    /\ UNCHANGED uriVars
    /\ UNCHANGED ioVars
    /\ UNCHANGED <<uptimeVars, env>>

\* _createStoragePool line 285: return conn.storagePoolLookupByName(pooln).
PoolLookup(w) ==
    /\ pc[w] = "pool_lookup"
    /\ \E res \in Outcomes :
        /\ Logged(w, "pool_lookup", res, 3)
        /\ IF res = "ok"
           THEN IF AfterPool = "KeyError"
                THEN Ends(w, "raise", <<"KeyError">>)
                ELSE Goto(w, AfterPool) /\ UNCHANGED result
           ELSE Ends(w, "raise", <<"libvirtError">>)
    /\ UNCHANGED <<req, conn, exitError, mountPoint, loop, injret, path, prior,
                   hostVars, histVars>>
    /\ UNCHANGED uriVars
    /\ UNCHANGED ioVars
    /\ UNCHANGED <<uptimeVars, env>>

\* _createVMFromTemplate line 305: conn.defineXML(template): the domain is
\* registered (not started); libvirt rejects a second domain of that name.
DomDefine(w) ==
    /\ pc[w] = "dom_define"
    /\ \E res \in Outcomes :
        /\ res = "ok" => PoolName(req[w]) \notin domains[HostOf(w)]
        /\ Logged(w, "dom_define", res, 4)
        /\ IF res = "ok"
           THEN /\ domains' = [domains EXCEPT ![HostOf(w)] =
                                  @ \cup {PoolName(req[w])}]
                /\ running' = IF DefineCall = "createXML"
                              THEN [running EXCEPT ![HostOf(w)] =
                                       @ \cup {PoolName(req[w])}]
                              ELSE running
                /\ created' = created \cup
                      {<<"domain", req[w].guest, PoolName(req[w]), HostOf(w)>>}
                /\ Goto(w, "dom_getxml")
                /\ UNCHANGED result
           ELSE /\ Ends(w, "raise", <<"libvirtError">>)
                /\ UNCHANGED <<domains, running, created>>
    /\ UNCHANGED <<req, conn, exitError, mountPoint, loop, injret, path, prior,
                   datasets, loopdev, mounts, pools, served, succeeded>>
    /\ UNCHANGED uriVars
    /\ fileReads' = [fileReads EXCEPT !["vm"] = @ + 1]
    /\ definition' = [definition EXCEPT ![w] =
                        Render(PoolName(req[w]), req[w].memory, req[w].cpus,
                               req[w].template)]
    /\ UNCHANGED <<uptimeVars, env>>

\* _createVMFromTemplate line 306, return self.getXML(domain=name), and
\* getXML line 134: conn.lookupByName(domain), the first of the two
\* libvirt calls of getXML. Nothing catches its libvirtError.
DomLookup(w) ==
    /\ pc[w] = "dom_getxml"
    /\ \E res \in Outcomes :
        /\ res = "ok" => PoolName(req[w]) \in domains[HostOf(w)]
        /\ Logged(w, "dom_getxml", res, 4)
        /\ IF res = "ok"
           THEN Goto(w, "dom_xmldesc") /\ UNCHANGED result
           ELSE Ends(w, "raise", <<"libvirtError">>)
    /\ UNCHANGED <<req, conn, exitError, mountPoint, loop, injret, path, prior,
                   hostVars, histVars>>
    /\ UNCHANGED uriVars
    /\ UNCHANGED ioVars
    /\ UNCHANGED <<uptimeVars, env>>

\* getXML line 134: XMLDesc() on the domain the lookup returned, the second
\* call; the hypervisor may have changed since the lookup. What it returns
\* is what _createVMFromTemplate and createVM (line 381) return.
DomGetXML(w) ==
    /\ pc[w] = "dom_xmldesc"
    /\ \E res \in Outcomes :
        /\ res = "ok" => PoolName(req[w]) \in domains[HostOf(w)]
        /\ Logged(w, "dom_getxml", res, 4)
        /\ IF res = "ok"
           THEN /\ Ends(w, "xml", PoolName(req[w]))
                /\ succeeded' = succeeded \cup {req[w].dataset}
           ELSE /\ Ends(w, "raise", <<"libvirtError">>)
                /\ UNCHANGED succeeded
    /\ UNCHANGED <<req, conn, exitError, mountPoint, loop, injret, path, prior,
                   hostVars, served, created>>
    /\ UNCHANGED uriVars
    /\ UNCHANGED ioVars
    /\ UNCHANGED <<uptimeVars, env>>

\* what the handler does after its with block, up to the next with block
\* or its return. create line 340: the value or the exception of the block
\* ends the request. lst lines 119-134: the next host, or the JSON answer.
\* xml line 185: jsonify({data['host']: xml}) raises KeyError for a body
\* without 'host'. resources line 237: uptimeCache()[host] comes next.
AfterWith(w) ==
    IF result[w].kind # "none"
    THEN Goto(w, "done") /\ UNCHANGED <<result, req>>
    ELSE CASE req[w].via = "lst" ->
                /\ req' = [req EXCEPT ![w].hosts = Tail(@)]
                /\ IF Tail(req[w].hosts) = <<>>
                   THEN /\ result' = [result EXCEPT ![w] =
                                        [kind |-> "json", text |-> Absent]]
                        /\ Goto(w, "done")
                   ELSE Goto(w, "enter") /\ UNCHANGED result
           [] req[w].via = "xml" ->
                /\ result' = [result EXCEPT ![w] =
                                IF req[w].hostKey
                                THEN [kind |-> "json", text |-> Absent]
                                ELSE [kind |-> "raise", text |-> <<"KeyError">>]]
                /\ Goto(w, "done")
                /\ UNCHANGED req
           [] req[w].via = "resources" ->
                Goto(w, "uptime") /\ UNCHANGED <<result, req>>
           [] OTHER ->
                Goto(w, "done") /\ UNCHANGED <<result, req>>

\* LVConn.__exit__ -> close() -> self.conn.close(), libvirtConnector.py
\* lines 65-69: runs when the with block returned or raised. Nothing guards
\* the call: when libvirt fails to close, its libvirtError leaves __exit__,
\* the connection stays as it was, and the exception leaves the handler in
\* the place of what the block returned or raised (result keeps that).
Exit(w) ==
    /\ pc[w] = "exit"
    /\ \E res \in Outcomes :
        /\ Logged(w, "close", res, 5)
        /\ IF res = "ok"
           THEN /\ conn' = [conn EXCEPT ![w] = "closed"]
                /\ AfterWith(w)
                /\ UNCHANGED exitError
           ELSE /\ exitError' = [exitError EXCEPT ![w] = <<"libvirtError">>]
                /\ Goto(w, "done")
                /\ UNCHANGED <<conn, result, req>>
    /\ UNCHANGED <<mountPoint, loop, injret, path, prior, hostVars, histVars>>
    /\ UNCHANGED uriVars
    /\ UNCHANGED ioVars
    /\ UNCHANGED <<uptimeVars, env>>

\* startVM line 213, shutdownVM line 232, terminateVM line 254: the
\* method looks the domain up by name first; each of the three catches the
\* libvirtError of the lookup (no such domain) and returns its message.
ManageLookup(w) ==
    /\ pc[w] = "manage"
    /\ \E res \in Outcomes :
        /\ res = "ok" => req[w].guest \in domains[HostOf(w)]
        /\ Logged(w, "dom_lookup", res, 4)
        /\ IF res = "ok"
           THEN Goto(w, "managed") /\ UNCHANGED result
           ELSE Ends(w, "error", <<"libvirtError">>)
    /\ UNCHANGED <<req, conn, exitError, mountPoint, loop, injret, path, prior,
                   hostVars, histVars>>
    /\ UNCHANGED uriVars
    /\ UNCHANGED ioVars
    /\ UNCHANGED <<uptimeVars, env>>

\* LVConn.startVM, lines 211-215: create() on the domain found; a
\* libvirtError (the domain is already running) is caught and its message
\* returned.
StartVM(w) ==
    /\ pc[w] = "managed"
    /\ req[w].method = "startVM"
    /\ \E res \in Outcomes :
        /\ res = "ok" => /\ req[w].guest \in domains[HostOf(w)]
                         /\ req[w].guest \notin running[HostOf(w)]
        /\ Logged(w, "dom_create", res, 4)
        /\ IF res = "ok"
           THEN /\ running' = [running EXCEPT ![HostOf(w)] = @ \cup {req[w].guest}]
                /\ Ends(w, "value", Absent)
           ELSE /\ Ends(w, "error", <<"libvirtError">>)
                /\ UNCHANGED running
    /\ UNCHANGED <<req, conn, exitError, mountPoint, loop, injret, path, prior,
                   datasets, loopdev, mounts, pools, domains, histVars>>
    /\ UNCHANGED uriVars
    /\ UNCHANGED ioVars
    /\ UNCHANGED <<uptimeVars, env>>

\* LVConn.shutdownVM, lines 230-234: shutdown() on the domain found, a
\* libvirtError (the domain is not running) caught and its message
\* returned.
ShutdownVM(w) ==
    /\ pc[w] = "managed"
    /\ req[w].method = "shutdownVM"
    /\ \E res \in Outcomes :
        /\ res = "ok" => req[w].guest \in running[HostOf(w)]
        /\ Logged(w, "dom_shutdown", res, 4)
        /\ IF res = "ok"
           THEN /\ running' = [running EXCEPT ![HostOf(w)] = @ \ {req[w].guest}]
                /\ Ends(w, "value", Absent)
           ELSE /\ Ends(w, "error", <<"libvirtError">>)
                /\ UNCHANGED running
    /\ UNCHANGED <<req, conn, exitError, mountPoint, loop, injret, path, prior,
                   datasets, loopdev, mounts, pools, domains, histVars>>
    /\ UNCHANGED uriVars
    /\ UNCHANGED ioVars
    /\ UNCHANGED <<uptimeVars, env>>

\* LVConn.terminateVM, lines 262-264: vmobj.destroy() stands outside any
\* try, so its libvirtError (the domain is not running) leaves the method.
TerminateVM(w) ==
    /\ pc[w] = "managed"
    /\ req[w].method = "terminateVM"
    /\ \E res \in Outcomes :
        /\ res = "ok" => req[w].guest \in running[HostOf(w)]
        /\ Logged(w, "dom_destroy", res, 4)
        /\ IF res = "ok"
           THEN /\ running' = [running EXCEPT ![HostOf(w)] = @ \ {req[w].guest}]
                /\ Ends(w, "value", Absent)
           ELSE /\ Ends(w, "raise", <<"libvirtError">>)
                /\ UNCHANGED running
    /\ UNCHANGED <<req, conn, exitError, mountPoint, loop, injret, path, prior,
                   datasets, loopdev, mounts, pools, domains, histVars>>
    /\ UNCHANGED uriVars
    /\ UNCHANGED ioVars
    /\ UNCHANGED <<uptimeVars, env>>

\* ----------------------------------------------------------- specification
Step(w) ==
    \/ ApiCreate(w)
    \/ DirectCall(w)
    \/ ExampleCreation(w)
    \/ PoolExample(w)
    \/ ApiLst(w)
    \/ ApiXml(w)
    \/ Query(w)
    \/ Enter(w)
    \/ Validate(w)
    \/ Clone(w)
    \/ InjQuery(w)
    \/ InjAttach(w)
    \/ InjMount(w)
    \/ InjWriteAddr(w)
    \/ InjWriteHost(w)
    \/ InjUmount(w)
    \/ InjDetach(w)
    \/ PoolQuery(w)
    \/ PoolDefine(w)
    \/ PoolAutostart(w)
    \/ PoolLookup(w)
    \/ Exit(w)

\* requests served one after another by one worker
Next == \E w \in SeqWorkers : Step(w)

Spec == Init /\ [][Next]_vars

\* ------------------------------------------------------- log vocabulary
\* the current request of w is an invocation of createVM
CreateVMRun(w) == req[w].via \in {"api", "direct"}

\* inject() has returned or raised for the current request
InjectOver(w) ==
    /\ pc[w] \in {"pool_query", "pool_define", "pool_autostart", "pool_lookup",
                  "dom_define", "dom_getxml", "dom_xmldesc", "exit", "done"}
    /\ \E i \in DOMAIN log[w] : log[w][i].stage = 2

\* a pipeline step that failed: clone, inject's steps 2-4, pool registration,
\* domain definition
StepFailed(e) ==
    /\ e.res = "err"
    /\ e.op \in {"clone", "losetup", "mount", "write_addr", "write_host",
                 "pool_define", "pool_autostart", "pool_lookup",
                 "dom_define", "dom_getxml"}

InjectStepOps == {"losetup", "mount", "write_addr", "write_host"}

\* ------------------------------------------------------------------ claims

\* C1: whenever inject() attached a loop device (losetup succeeded), the
\* detach command (losetup -d) has been issued exactly once by the time
\* inject() is over, whatever mount, the writes and umount did.
C1_DetachIssuedOnce ==
    \A w \in Workers :
        (InjectOver(w) /\ Issued(w, "losetup", "ok")) => Count(w, "losetup_d") = 1

\* createVM was invoked for the current request and has returned or raised
CreateVMOver(w) ==
    /\ req[w].via \in {"api", "direct"}
    /\ pc[w] \in {"exit", "done"}
    /\ Issued(w, "open", "ok")

\* C3: in a createVM run, once a pipeline step has failed, no operation of
\* a later step is issued for that request (closing the connection is not
\* a pipeline step).
C3_NoStepAfterFailure ==
    \A w \in Workers :
        \A i, j \in DOMAIN log[w] :
            (CreateVMRun(w) /\ i < j /\ StepFailed(log[w][i])) =>
                (log[w][j].stage <= log[w][i].stage \/ log[w][j].op = "close")

C3_Witness ==
    \E w \in Workers :
        /\ pc[w] = "done"
        /\ Issued(w, "write_addr", "err")
        /\ Issued(w, "losetup_d", "ok")
        /\ result[w] = [kind |-> "error", text |-> ErrorOf("write_addr")]

\* C4: a request with neither guest name nor IP address ends without any
\* remote call, the opening of the hypervisor connection included.
C4_NoRemoteCallWithoutIdentity ==
    \A w \in Workers :
        ( /\ req[w].via \in {"api", "direct"}
          /\ ~Truthy(req[w].argGuest) /\ ~Truthy(req[w].argIp) )
            => log[w] = <<>>

\* the identity-resolution error createVM returns for the lookup the
\* request needs
ResolutionError(w) ==
    ResolveIdentity(req[w].argGuest, req[w].argIp,
                    IF Truthy(req[w].argGuest) THEN "gaierror" ELSE "herror").err

\* C5: with exactly one of guest name / IP supplied, a failed lookup ends
\* createVM with the identity-resolution error and no volume-manager,
\* loop/mount, pool or domain operation; the clone step is only entered
\* with both guest name and IP address resolved.
C5_UnresolvedNeverProceeds ==
    \A w \in Workers :
        /\ Issued(w, "dns", "err") =>
              /\ \A i \in DOMAIN log[w] : log[w][i].op \in {"open", "dns", "close"}
              /\ pc[w] \in {"exit", "done"}
              /\ result[w].kind = "error"
              /\ result[w].text = ResolutionError(w)
        /\ (pc[w] = "clone" \/ \E i \in DOMAIN log[w] : log[w][i].stage \in 1..4) =>
              (Truthy(req[w].guest) /\ Truthy(req[w].ip))

\* C6: when the clone command reports errors, createVM returns the clone
\* step's error and this request attaches no loop device and defines no
\* pool and no domain.
C6_CloneErrorStops ==
    \A w \in Workers :
        (CreateVMRun(w) /\ Issued(w, "clone", "err")) =>
            /\ pc[w] \in {"exit", "done"}
            /\ result[w] = [kind |-> "error", text |-> ErrorOf("clone")]
            /\ loop[w] = <<>>
            /\ \A i \in DOMAIN log[w] : log[w][i].stage \notin 2..4

C6_Witness ==
    \E w \in Workers :
        /\ pc[w] = "done"
        /\ CreateVMRun(w)
        /\ Issued(w, "clone", "err")
        /\ result[w] = [kind |-> "error", text |-> ErrorOf("clone")]

\* C7: when one of inject()'s steps 2-4 failed, the caller of inject()
\* receives the error of that step, never anything raised by the cleanup.
C7_OriginalErrorSurfaces ==
    \A w \in Workers :
        \A i \in DOMAIN log[w] :
            (InjectOver(w) /\ log[w][i].op \in InjectStepOps /\ log[w][i].res = "err")
                => result[w] = [kind |-> "error", text |-> ErrorOf(log[w][i].op)]

\* C8: when steps 2-4 all succeeded and umount or losetup -d failed, the
\* failure is swallowed: inject() reports nothing and createVM goes on to
\* pool registration.
C8_CleanupFailureSwallowed ==
    \A w \in Workers :
        ( /\ CreateVMRun(w)
          /\ InjectOver(w)
          /\ Issued(w, "write_host", "ok")
          /\ (Issued(w, "umount", "err") \/ Issued(w, "losetup_d", "err")) )
        => /\ injret[w] = Absent
           /\ (pc[w] = "pool_query" \/ \E i \in DOMAIN log[w] : log[w][i].stage = 3)

C8_Witness ==
    \E w \in Workers :
        /\ Issued(w, "write_host", "ok")
        /\ Issued(w, "umount", "err")
        /\ Issued(w, "pool_define", "ok")

\* C9: a request whose dataset name was cloned on its host by an earlier
\* run (every earlier successful run is one) never succeeds: its clone fails,
\* createVM returns the clone error and no inject, pool or domain
\* operation is issued.
C9_SecondRunCloneError ==
    \A w \in Workers :
        (CreateVMRun(w) /\ prior[w]) =>
            /\ result[w].kind # "xml"
            /\ ~Issued(w, "clone", "ok")
            /\ \A i \in DOMAIN log[w] : log[w][i].stage \notin 2..4
            /\ (Issued(w, "clone", "err") /\ pc[w] = "done") =>
                  result[w] = [kind |-> "error", text |-> ErrorOf("clone")]

C9_Witness ==
    \E w \in Workers :
        /\ CreateVMRun(w)
        /\ prior[w] /\ pc[w] = "done" /\ Issued(w, "clone", "err")
        /\ result[w] = [kind |-> "error", text |-> ErrorOf("clone")]

\* artifacts of one kind the pipeline created for guest name g
CreatedFor(kind, g) == {c \in created : c[1] = kind /\ c[2] = g}
GuestsSeen == {c[2] : c \in created}

\* no request is in flight
Quiescent == \A w \in Workers : pc[w] \in {"idle", "done"}

\* C10: after any sequence of requests at most one cloned dataset, one
\* pool and one domain created by the pipeline exist per guest name.
C10_AtMostOneEachPerGuest ==
    Quiescent => \A g \in GuestsSeen :
        /\ Cardinality(CreatedFor("dataset", g)) <= 1
        /\ Cardinality(CreatedFor("pool", g)) <= 1
        /\ Cardinality(CreatedFor("domain", g)) <= 1

\* C11: every createVM invocation ends either by returning the rendered
\* domain definition or by returning one non-empty error string; nothing
\* else (no exception) ends it, whatever stage failed.
C11_XmlOrErrorString ==
    \A w \in Workers :
        CreateVMOver(w) =>
            \/ result[w].kind = "xml"
            \/ (result[w].kind = "error" /\ Truthy(result[w].text))

\* ------------------------------------------------ concurrent specification
\* gunicorn runs several workers (gunicorn_config.py: workers), so two
\* requests can be served at the same time against the same host. To keep
\* the interleavings explorable the concurrent requests carry both a guest
\* name and an address, for guest g1 on host h1.
ConcInputs ==
    \A w \in Workers :
        req[w].via # "none" =>
            /\ req[w].host = "h1"
            /\ req[w].argGuest = <<"g1">>
            /\ req[w].argIp = <<"ip1">>
            /\ req[w].dataset \in {<<"a">>, <<"b">>}

ConcStep(w) ==
    \/ ApiCreate(w) /\ ConcInputs'
    \/ DirectCall(w) /\ ConcInputs'
    \/ Enter(w)
    \/ Validate(w)
    \/ Clone(w)
    \/ InjQuery(w)
    \/ InjAttach(w)
    \/ InjMount(w)
    \/ InjWriteAddr(w)
    \/ InjWriteHost(w)
    \/ InjUmount(w)
    \/ InjDetach(w)
    \/ PoolQuery(w)
    \/ PoolDefine(w)
    \/ PoolAutostart(w)
    \/ PoolLookup(w)
    \/ Exit(w)

ConcNext == \E w \in Workers : ConcStep(w)

SpecConc == Init /\ [][ConcNext]_vars

\* worker w has mounted its partition on the fixed mount point and has
\* not yet issued its umount
InMountWindow(w) ==
    /\ pc[w] \in {"inj_addr", "inj_host", "inj_umount"}
    /\ Issued(w, "mount", "ok")

\* C12: injection is serialized per host: the mount..umount windows of two
\* requests on the same host never overlap.
C12_InjectSerialized ==
    \A v, w \in Workers :
        v # w => ~(InMountWindow(v) /\ InMountWindow(w))

\* the commands createVM issues as pipeline steps
PipelineStepOps ==
    {"clone", "losetup", "mount", "write_addr", "write_host",
     "pool_define", "dom_define"}

\* C13: within one createVM invocation the clone, the loop attach, the
\* mount, each identity write, the pool definition and the domain
\* definition are each issued at most once, whether they succeed or fail.
C13_NoStepRetried ==
    \A w \in Workers :
        \A op \in PipelineStepOps : Count(w, op) <= 1

\* an invocation whose mount failed has ended, with one attempt of each
\* step it reached
C13_Witness ==
    \E w \in Workers :
        /\ pc[w] = "done"
        /\ Issued(w, "mount", "err")
        /\ Count(w, "clone") = 1
        /\ Count(w, "losetup") = 1
        /\ Count(w, "mount") = 1

\* operation names a start of a domain would leave in the log (startVM,
\* lines 200-220, calls lookupByName(...).create())
StartOps == {"dom_create", "dom_start"}

\* the requests that run the provisioning pipeline or its last stage
PipelineVias == {"api", "direct", "template"}

\* C14: the pipeline registers the domain but never starts it: no step of
\* a createVM / _createVMFromTemplate run changes which domains are
\* running or issues a start operation, and when the run returns the
\* definition the domain is not running. (Starting a domain takes a call
\* of startVM by the caller.)
C14_DefinedNotStarted ==
    [][\A w \in Workers :
          (log'[w] # log[w] /\ req'[w].via \in PipelineVias) =>
              /\ running' = running
              /\ \A i \in DOMAIN log'[w] : log'[w][i].op \notin StartOps
              /\ result'[w].kind = "xml" =>
                     PoolName(req'[w]) \notin running'[req'[w].host]]_vars

\* an invocation has returned the definition of a domain that is
\* registered and shut off
C14_Witness ==
    \E w \in Workers :
        /\ pc[w] = "done"
        /\ result[w].kind = "xml"
        /\ Issued(w, "dom_define", "ok")
        /\ PoolName(req[w]) \in domains[HostOf(w)]
        /\ PoolName(req[w]) \notin running[HostOf(w)]

\* C15: every storage pool createVM leaves defined is named after the
\* guest, is bound to the mount path of the request's cloned dataset and
\* has its auto-start flag set, in every state after createVM has ended.
C15_PoolNamedBoundAutostart ==
    \A w \in Workers :
        (CreateVMOver(w) /\ Issued(w, "pool_define", "ok")) =>
            \E p \in pools[HostOf(w)] :
                /\ p.name = req[w].guest
                /\ p.path = MountPath(DatasetName(w))
                /\ p.autostart

\* C16: when the loop attach of an inject() invocation failed, its cleanup
\* issues neither an unmount nor a detach command.
C16_NoCleanupWithoutAttach ==
    \A w \in Workers :
        Issued(w, "losetup", "err") =>
            /\ Count(w, "umount") = 0
            /\ Count(w, "losetup_d") = 0

\* the mount-point query of the given stage (2: inside inject, 3: before
\* the pool definition) errored in the current invocation
QueryFailed(w, stage) ==
    \E i \in DOMAIN log[w] : log[w][i] = Op("zfs_get", "err", stage)

\* C17: when the mount-point query errors, the error is never handed back
\* as if it were a mount path: no loop attach is issued on a path derived
\* from it and no storage pool or domain is built from it.
C17_QueryErrorNotUsedAsPath ==
    \A w \in Workers :
        /\ mountPoint[w] # ErrorOf("zfs_get")
        /\ path[w] # ErrorOf("zfs_get")
        /\ QueryFailed(w, 2) => Count(w, "losetup") = 0
        /\ QueryFailed(w, 3) =>
               Count(w, "pool_define") = 0 /\ Count(w, "dom_define") = 0

\* position of a command in inject(), lines 79-101
InjectRank(op) ==
    CASE op = "zfs_get"    -> 1
      [] op = "losetup"    -> 2
      [] op = "mount"      -> 3
      [] op = "write_addr" -> 4
      [] op = "write_host" -> 5
      [] op = "umount"     -> 6
      [] op = "losetup_d"  -> 7
      [] OTHER             -> 0

\* the commands of w's inject() invocation appear in the order of the code
InjectOrder(w) ==
    \A i, j \in DOMAIN log[w] :
        (i < j /\ log[w][i].stage = 2 /\ log[w][j].stage = 2) =>
            InjectRank(log[w][i].op) < InjectRank(log[w][j].op)

\* w issues one of its two identity writes in this step
WritesIdentity(w) ==
    /\ pc[w] \in {"inj_addr", "inj_host"}
    /\ pc'[w] # pc[w]

\* the partition w attached is mounted on the fixed mount point
OwnPartitionMounted(w) ==
    /\ loop[w] # <<>>
    /\ \E i \in DOMAIN mounts[HostOf(w)] : mounts[HostOf(w)][i] = loop[w][1]

\* the commands of inject() are issued in the order of the code
InjectOrdered == \A w \in Workers : InjectOrder(w)

\* C18: within one inject() invocation the commands are issued in the
\* order query, attach, mount, address write, hostname write, unmount,
\* detach, and each identity write is issued only while the partition of
\* that invocation is mounted.
C18_OrderedWritesWhileMounted ==
    [][\A w \in Workers :
          /\ InjectOrder(w)'
          /\ WritesIdentity(w) => OwnPartitionMounted(w)]_vars

\* one of the steps inside inject()'s try block failed in this invocation
InjectFailed(w) ==
    \E i \in DOMAIN log[w] :
        /\ log[w][i].stage = 2
        /\ log[w][i].op \in InjectStepOps
        /\ log[w][i].res = "err"

\* operations that would take the cloned dataset back
RollbackOps == {"zfs_destroy", "zfs_rollback"}

\* C19: when inject() fails, createVM ends with that error, the cloned
\* dataset stays on the host, no destroy or rollback is issued and no
\* storage pool or domain is defined for the request.
C19_InjectFailureLeavesClone ==
    \A w \in Workers :
        (CreateVMOver(w) /\ InjectFailed(w)) =>
            /\ Truthy(injret[w])
            /\ result[w] = [kind |-> "error", text |-> injret[w]]
            /\ DatasetName(w) \in datasets[HostOf(w)]
            /\ \A i \in DOMAIN log[w] :
                   /\ log[w][i].op \notin RollbackOps
                   /\ log[w][i].stage \notin {3, 4}
            /\ Count(w, "pool_define") = 0
            /\ Count(w, "dom_define") = 0

\* ------------------------------------------------ host of the system URI
\* A system URI is a sequence of tokens: the scheme with its colon, then
\* single characters, and the word "system" as one token.
MaxAuthLen == 2

Schemes == {"qemu:", "qemu+ssh:"}

\* characters an authority is written with: a letter, the user separator,
\* the dot and the hyphen
AuthChars == {"h", "@", ".", "-"}

\* LVConn._hostR, line 38: the class [a-zA-Z0-9.@]
HostClass == {"h", "@", "."}

\* settings.env['DEFAULT_HOST']: socket.gethostname() of the API host
DefaultHost == <<"apihost">>

Authorities == UNION {[1..n -> AuthChars] : n \in 0..MaxAuthLen}

SystemURI(scheme, auth) == <<scheme, "/", "/">> \o auth \o <<"/", "system">>

Systems == {SystemURI(sc, a) : sc \in Schemes, a \in Authorities}

\* the greedy run [a-zA-Z0-9.@]* starting at p: index after its last character
RECURSIVE RunEnd(_, _)
RunEnd(s, p) ==
    IF p <= Len(s) /\ s[p] \in HostClass THEN RunEnd(s, p + 1) ELSE p

\* _hostR matches at p: "//" behind, the run, "/system" ahead
MatchAt(s, p) ==
    /\ p >= 3
    /\ s[p - 2] = "/"
    /\ s[p - 1] = "/"
    /\ LET e == RunEnd(s, p) IN
           /\ e + 1 <= Len(s)
           /\ s[e] = "/"
           /\ s[e + 1] = "system"

\* LVConn.__init__ lines 45-49: re.search takes the leftmost match; a match
\* object is truthy even when it matched the empty string.
LVConnHost(s) ==
    LET ps == {p \in 1..(Len(s) + 1) : MatchAt(s, p)} IN
    IF ps = {} THEN DefaultHost
    ELSE LET p == CHOOSE q \in ps : \A r \in ps : q <= r IN
         SubSeq(s, p, RunEnd(s, p) - 1)

\* DatasetManager.__init__ line 28: f'ssh {host} ' if host else ''
HostString(h) ==
    IF Truthy(h) THEN <<"ssh", " ">> \o h \o <<" ">> ELSE <<>>

\* pool.py line 60: f'{self.hostString}zfs clone ...'
CommandLine(prefix, cmd) == prefix \o cmd

\* [user@]host without the user
StripUser(a) ==
    LET ats == {i \in DOMAIN a : a[i] = "@"} IN
    IF ats = {} THEN a
    ELSE SubSeq(a, (CHOOSE i \in ats : \A j \in ats : j <= i) + 1, Len(a))

\* the host lv.open(system) connects to: the authority of the URI without
\* its user, the local machine when the authority is empty
ConnectedHost(s) ==
    LET stop == CHOOSE e \in 4..Len(s) :
                    s[e] = "/" /\ \A i \in 4..(e - 1) : s[i] # "/"
        auth == StripUser(SubSeq(s, 4, stop - 1))
    IN IF auth = <<>> THEN DefaultHost ELSE auth

\* dataset names a caller may give: strings of letters and separators
MaxNameLen == 3

NameChars == {"a", "/"}

DatasetInputs == UNION {[1..n -> NameChars] : n \in 1..MaxNameLen}

\* LVConn(system), lines 40-49
LVConnInit ==
    /\ lvpc = "new"
    /\ \E s \in Systems :
        /\ system' = s
        /\ host' = LVConnHost(s)
    /\ lvpc' = "conn"
    /\ UNCHANGED <<hostString, cmdline, datasetArg, datasetName>>
    /\ UNCHANGED <<workerVars, hostVars, histVars>>
    /\ UNCHANGED ioVars
    /\ UNCHANGED <<uptimeVars, env>>

\* createVM line 355: DatasetManager(machineImage, dataset, host=self.host)
DatasetManagerInit ==
    /\ lvpc = "conn"
    /\ hostString' = HostString(host)
    /\ \E ds \in DatasetInputs :
        /\ datasetArg' = ds
        /\ datasetName' = Normalize(ds)
    /\ lvpc' = "dm"
    /\ UNCHANGED <<system, host, cmdline, workerVars, hostVars, histVars>>
    /\ UNCHANGED ioVars
    /\ UNCHANGED <<uptimeVars, env>>

\* clone() line 60: the first command of the request is built
IssueCommand ==
    /\ lvpc = "dm"
    /\ cmdline' = CommandLine(hostString, <<"zfs", "clone">> \o datasetName)
    /\ lvpc' = "issued"
    /\ UNCHANGED <<system, host, hostString, datasetArg, datasetName>>
    /\ UNCHANGED <<workerVars, hostVars, histVars>>
    /\ UNCHANGED ioVars
    /\ UNCHANGED <<uptimeVars, env>>

URINext ==
    \/ LVConnInit
    \/ DatasetManagerInit
    \/ IssueCommand

SpecURI == Init /\ [][URINext]_vars

\* C20: every command issued for a request starts with a remote-shell
\* prefix, and the host that prefix names is the host the system URI's
\* hypervisor connection goes to, for every system URI.
C20_PrefixNamesHypervisorHost ==
    lvpc = "issued" =>
        /\ hostString # <<>>
        /\ SubSeq(cmdline, 1, Len(hostString)) = hostString
        /\ cmdline[1] = "ssh"
        /\ StripUser(host) = ConnectedHost(system)

\* ------------------------------------- _createVMFromTemplate on its own
\* createVM never gets as far as _createVMFromTemplate (AfterPool), so the
\* method is exercised the way a caller holding an open LVConn would call
\* it: lv._createVMFromTemplate(name, memory, disk, bridge, cpus, template).
\* The same caller can start, shut down and destroy the domains it defined,
\* and the list and xml handlers see them.
MemoryArgs == {512, 1024, 2048}

CpuArgs == {1, 2}

TemplateCall(w) ==
    /\ pc[w] \in {"idle", "done"}
    /\ \E g \in GuestNames, m \in MemoryArgs, c \in CpuArgs :
        Admit(w, Request("template", Absent, g, Absent,
                         [memory |-> m, cpus |-> c, template |-> "ubuntu"],
                         FALSE))
    /\ Goto(w, "enter")
    /\ result' = [result EXCEPT ![w] = NoResult]
    /\ UNCHANGED uriVars
    /\ UNCHANGED fileReads
    /\ UNCHANGED <<uptimeVars, env>>

TemplateStep(w) ==
    \/ TemplateCall(w)
    \/ ManageCall(w)
    \/ ApiLst(w)
    \/ ApiXml(w)
    \/ Enter(w)
    \/ DomDefine(w)
    \/ DomLookup(w)
    \/ DomGetXML(w)
    \/ ManageLookup(w)
    \/ StartVM(w)
    \/ ShutdownVM(w)
    \/ TerminateVM(w)
    \/ Query(w)
    \/ Exit(w)

TemplateNext == \E w \in SeqWorkers : TemplateStep(w)

SpecTemplate == Init /\ [][TemplateNext]_vars

\* C21: across any sequence of requests in one process each template file
\* (the storage-pool definition template, the VM template) is read from
\* disk at most once; later definitions use cached contents.
C21_TemplateReadOnce ==
    \A f \in TemplateFiles : fileReads[f] <= 1

\* ------------------------------------------------- load-average cache
\* hosts the load-average cache file may name; "x" is not on the allow-list
FileHosts == {"h1", "h2", "x"}

\* uptimeCache lines 200-205: abort(500) unless every server of the file is
\* on the allow-list, else the samples are returned
RefreshM(file) ==
    "return"

Refresh(file) ==
    IF \A server \in file : server \in ValidHosts THEN "return" ELSE "abort500"

\* the job that maintains env['UPTIME_CACHE'] writes the file
WriteCacheFile ==
    /\ \E hs \in SUBSET FileHosts :
        /\ (cacheOnDisk => hs # cacheFile)
        /\ cacheFile' = hs
    /\ cacheOnDisk' = TRUE
    /\ UNCHANGED <<memCache, upLast>>
    /\ UNCHANGED <<workerVars, hostVars, histVars, uriVars, ioVars, env>>

\* the file is taken away (the job rotates it, /tmp is cleaned)
RemoveCacheFile ==
    /\ cacheOnDisk
    /\ cacheOnDisk' = FALSE
    /\ cacheFile' = {}
    /\ UNCHANGED <<memCache, upLast>>
    /\ UNCHANGED <<workerVars, hostVars, histVars, uriVars, ioVars, env>>

\* the call ends the request with an exception
Fails(w, kind, text) ==
    /\ result' = [result EXCEPT ![w] = [kind |-> kind, text |-> text]]
    /\ Goto(w, "done")
    /\ UNCHANGED req

\* resources line 237 calls uptimeCache() while the TTLCache of line 188
\* has no entry: the lookup misses and the function runs, lines 194-205:
\* the file is opened (FileNotFoundError when it is not there), read and
\* checked. What the function returns the decorator stores, cache[k] = v.
\* The ttl of that cache is env['UPTIME_CACHE_TTL'], which settings.py
\* line 20 takes from os.getenv: a str, or None. TTLCache.__setitem__
\* writes the entry and then adds the ttl to the clock for its expiry,
\* a TypeError for a str and for None; the decorator catches ValueError
\* only. So the call raises TypeError, the entry written stays without
\* an expiry, and the [host] subscript of line 237 is not reached.
UptimeRefresh(w) ==
    /\ pc[w] = "uptime"
    /\ ~memCache.written
    /\ IF ~cacheOnDisk
       THEN /\ upLast' = [kind |-> "refresh", file |-> {},
                          result |-> "FileNotFoundError", entry |-> {}]
            /\ Fails(w, "raise", <<"FileNotFoundError">>)
            /\ UNCHANGED memCache
       ELSE IF Refresh(cacheFile) = "abort500"
       THEN /\ upLast' = [kind |-> "refresh", file |-> cacheFile,
                          result |-> "http500", entry |-> {}]
            /\ Fails(w, "http500", Absent)
            /\ UNCHANGED memCache
       ELSE /\ memCache' = [written |-> TRUE, hosts |-> cacheFile]
            /\ upLast' = [kind |-> "refresh", file |-> cacheFile,
                          result |-> "TypeError", entry |-> {}]
            /\ Fails(w, "raise", <<"TypeError">>)
    /\ UNCHANGED <<cacheOnDisk, cacheFile>>
    /\ UNCHANGED <<conn, exitError, mountPoint, loop, injret, path, log, prior>>
    /\ UNCHANGED <<hostVars, histVars, uriVars, ioVars, env>>

\* resources line 237 calls uptimeCache() while the TTLCache holds the
\* entry an earlier call wrote: TTLCache.__getitem__ compares the expiry
\* of the entry, which was never set, with the clock, a TypeError. The
\* function does not run and the file is not read.
UptimeLookup(w) ==
    /\ pc[w] = "uptime"
    /\ memCache.written
    /\ upLast' = [kind |-> "lookup", file |-> {}, result |-> "TypeError",
                  entry |-> memCache.hosts]
    /\ Fails(w, "raise", <<"TypeError">>)
    /\ UNCHANGED <<cacheOnDisk, cacheFile, memCache>>
    /\ UNCHANGED <<conn, exitError, mountPoint, loop, injret, path, log, prior>>
    /\ UNCHANGED <<hostVars, histVars, uriVars, ioVars, env>>

\* the resources handler and the job that writes the file, on hosts that
\* have guests
UptimeStep(w) ==
    \/ ApiResources(w)
    \/ Enter(w)
    \/ Query(w)
    \/ Exit(w)
    \/ UptimeRefresh(w)
    \/ UptimeLookup(w)

UptimeNext ==
    \/ WriteCacheFile
    \/ RemoveCacheFile
    \/ \E w \in SeqWorkers : UptimeStep(w)

SpecUptime == InitHosted /\ [][UptimeNext]_vars

\* C22: a refresh that finds in the cache file a host outside the
\* allow-list ends in HTTP 500 and returns no samples; such data is never
\* written to the cache in memory, and no later call finds it there.
C22_MismatchIsReportedNotCached ==
    /\ (upLast.kind = "refresh" /\ ~(upLast.file \subseteq ValidHosts)) =>
           upLast.result = "http500"
    /\ memCache.written => memCache.hosts \subseteq ValidHosts
    /\ upLast.kind = "lookup" => upLast.entry \subseteq ValidHosts

\* a refresh has read a file naming host "x" and the resources request
\* ended in HTTP 500 with nothing written to memory
C22_Witness ==
    /\ upLast.kind = "refresh"
    /\ "x" \in upLast.file
    /\ upLast.result = "http500"
    /\ ~memCache.written
    /\ \E w \in Workers : result[w].kind = "http500"

\* C23: the name a DatasetManager holds, and puts into its commands, has
\* the trailing separators of the caller's name normalized away: for a
\* name longer than one character it does not end with '/', and
\* normalizing it again leaves it unchanged.
C23_TrailingSeparatorsRemoved ==
    (lvpc \in {"dm", "issued"} /\ Len(datasetArg) > 1) =>
        /\ datasetName[Len(datasetName)] # "/"
        /\ Normalize(datasetName) = datasetName
        /\ lvpc = "issued" => cmdline[Len(cmdline)] # "/"

\* C24: a rendered domain definition has its memory and its current memory
\* in KiB, 1024 times the MiB requested, and the requested vCPU count; a
\* request that omits memory, cpus and template, through the HTTP handler
\* or through createVM's own defaults, runs with 1024 MiB, 1 vCPU and
\* "ubuntu" and, once its pool is registered, is rendered with 1048576 KiB.
C24_RenderedMemoryAndDefaults ==
    \A w \in Workers :
        /\ definition[w] # NoDefinition =>
               /\ definition[w].memory = req[w].memory * 1024
               /\ definition[w].currentMemory = req[w].memory * 1024
               /\ definition[w].vcpu = req[w].cpus
        /\ (CreateVMRun(w) /\ req[w].omitted /\ Issued(w, "open", "ok")) =>
               /\ req[w].memory = 1024
               /\ req[w].cpus = 1
               /\ req[w].template = "ubuntu"
        /\ (req[w].omitted /\ CreateVMOver(w)
              /\ Issued(w, "pool_lookup", "ok")) =>
               /\ definition[w].memory = 1048576
               /\ definition[w].vcpu = 1
               /\ definition[w].template = "ubuntu"

\* number of connections opened / closed by the first k operations of w's
\* request
Opened(w, k) ==
    Cardinality({i \in 1..k : log[w][i] = Op("open", "ok", 0)})

Closed(w, k) ==
    Cardinality({i \in 1..k : log[w][i] = Op("close", "ok", 5)})

\* C25: every hypervisor connection opened for a request is closed again
\* on every exit path: a handler holds at most one open connection, every
\* close closes a connection that was opened and not yet closed, once the
\* handler is over (whether the block returned a definition, returned an
\* error string or raised) every connection it opened has been closed
\* exactly once, and no operation follows a close except the opening of
\* the next connection.
C25_ConnectionClosedOnce ==
    \A w \in Workers :
        /\ \A k \in DOMAIN log[w] :
               /\ Closed(w, k) <= Opened(w, k)
               /\ Opened(w, k) <= Closed(w, k) + 1
               /\ (log[w][k].op = "close" /\ k < Len(log[w])) =>
                      log[w][k + 1].op = "open"
        /\ pc[w] \in {"idle", "done"} =>
               /\ conn[w] # "open"
               /\ Opened(w, Len(log[w])) = Closed(w, Len(log[w]))

====
